---- MODULE Spec2Model ----
(***************************************************************************)
(* The physics core of the basketball game: Ball (src/unnamed/part_001),   *)
(* Player (src/Player.js), Bot (src/Bot.js), Game and the relay server     *)
(* (src/unnamed/part_002), World (src/World.js).                           *)
(*                                                                         *)
(* Units.  Positions and overlaps are integers counting 1e-6 length units  *)
(* (so the resolver's epsilon 1e-3 is 1000), velocities count 1e-3 units   *)
(* per second, and the time step of a physics pass counts milliseconds, so *)
(* position += velocity * dt is exact.  The time arithmetic of the         *)
(* sub-step loop of Ball.update is done on IEEE-754 doubles, bit for bit.  *)
(***************************************************************************)
EXTENDS Integers, Sequences, FiniteSets, TLC

VARIABLES
    ball,      \* Ball: mesh.position, velocity, owner, ballBox
    upd,       \* the running Ball.update call: its arguments and loop variables
    obs,       \* what the running call has done so far (observations, read by no action)
    apex,      \* the heights the ball reached between its floor bounces (observations)
    player,    \* Player: camera.position, velocity, flags, and the pointer lock
    pobs,      \* what the last Player.update did, pass by pass (observations)
    game,      \* Game: score, justScored, the pending reset timer, the last reads of hasBall
    shot,      \* a shot solved by Bot.calculateShotVelocity and the flight stepped from it
    traj,      \* Trajectory: the preview's samples, and what its last update did to its arguments
    chunk,     \* one ball state advanced by one Ball.update(0.05) and by five Ball.update(0.01)
    bot,       \* Bot: position, stamina, hasBall and its timers
    sprint,    \* the stamina of the last frames: exhausted while the sprint key is held (observations)
    relay,     \* the relay server's players and ballState, a remote player, the messages in flight
    duel,      \* the last operation on bot, player and ball and what they were before it (observations)
    io         \* the relay server: its sockets, players, ballState and last emissions

vars == <<ball, upd, obs, apex, player, pobs, game, shot, traj, chunk, bot, sprint, relay, duel, io>>

---------------------------------------------------------------------------
(* Fixed-point helpers.                                                    *)

Abs(a) == IF a < 0 THEN -a ELSE a

Sign(a) == IF a > 0 THEN 1 ELSE IF a < 0 THEN -1 ELSE 0

Min2(a, b) == IF a < b THEN a ELSE b

Max2(a, b) == IF a > b THEN a ELSE b

\* a / b rounded to the nearest integer, as a floating-point quotient is
\* rounded to the nearest representable value.
RDiv(a, b) == Sign(a) * ((2 * Abs(a) + b) \div (2 * b))

\* F(e), with e evaluated once.
With(e, F(_)) == CHOOSE r \in {F(v) : v \in {e}} : TRUE

Vec(x, y, z) == [x |-> x, y |-> y, z |-> z]

VZero == Vec(0, 0, 0)

---------------------------------------------------------------------------
(* IEEE-754 doubles of the sub-step loop.  A finite non-negative double is *)
(* held exactly as a natural number counting units of 2^-62 s, written in  *)
(* NL digits of base 2^24, least significant first; every double from      *)
(* 2^-10 s to 2^57 s is such a number.                                     *)

NL == 5

LimbBits == 24

Mant == 53

Base == 2 ^ LimbBits

BZero == [i \in 1..NL |-> 0]

TopOf(S) == CHOOSE i \in S : \A j \in S : j <= i

\* Bit i (from 1, least significant) of a.
BitAt(a, i) == (a[((i - 1) \div LimbBits) + 1] \div (2 ^ ((i - 1) % LimbBits))) % 2

\* The number of significant bits of one digit.
DigitLen(d) == IF d = 0 THEN 0 ELSE TopOf({k \in 1..LimbBits : d >= 2 ^ (k - 1)})

BitLen(a) ==
    LET S == {i \in 1..NL : a[i] # 0}
    IN  IF S = {} THEN 0 ELSE (TopOf(S) - 1) * LimbBits + DigitLen(a[TopOf(S)])

BGt(a, b) == LET D == {i \in 1..NL : a[i] # b[i]} IN D # {} /\ a[TopOf(D)] > b[TopOf(D)]

\* The borrow into digit i of a - b: the lower digits of a are less than those of b.
Borrow(a, b, i) ==
    LET D == {j \in 1..(i - 1) : a[j] # b[j]} IN D # {} /\ a[TopOf(D)] < b[TopOf(D)]

\* a - b, exactly (a >= b).
BSub(a, b) ==
    [i \in 1..NL |-> (a[i] - b[i] - (IF Borrow(a, b, i) THEN 1 ELSE 0)) % Base]

\* The carry into digit i of a + b.
Carry(a, b, i) ==
    LET D == {j \in 1..(i - 1) : a[j] + b[j] # Base - 1}
    IN  D # {} /\ a[TopOf(D)] + b[TopOf(D)] >= Base

\* a + b, exactly.
BAdd(a, b) ==
    [i \in 1..NL |-> (a[i] + b[i] + (IF Carry(a, b, i) THEN 1 ELSE 0)) % Base]

\* 2^k
BPow2(k) == [i \in 1..NL |-> IF i = (k \div LimbBits) + 1 THEN 2 ^ (k % LimbBits) ELSE 0]

\* a with its k low bits cleared.
ClearLow(a, k) ==
    [i \in 1..NL |->
        IF i * LimbBits <= k THEN 0
        ELSE IF (i - 1) * LimbBits >= k THEN a[i]
        ELSE a[i] - (a[i] % (2 ^ (k % LimbBits)))]

\* Round to nearest, ties to even, to a significand of Mant bits.
RoundDouble(a) ==
    LET k == BitLen(a) - Mant
    IN  IF k <= 0 THEN a
        ELSE LET kept   == ClearLow(a, k)
                 sticky == ClearLow(a, k - 1) # a
                 up     == BitAt(a, k) = 1 /\ (sticky \/ BitAt(a, k + 1) = 1)
             IN  IF up THEN BAdd(kept, BPow2(k)) ELSE kept

\* A double: finite (sign and magnitude), an infinity or NaN.
Fin(m) == [k |-> "fin", neg |-> FALSE, m |-> m]

FNeg(m) == [k |-> "fin", neg |-> TRUE, m |-> m]

FInf == [k |-> "inf", neg |-> FALSE, m |-> BZero]

FNaN == [k |-> "nan", neg |-> FALSE, m |-> BZero]

FZero == Fin(BZero)

\* f > 0
FPositive(f) == f.k # "nan" /\ ~f.neg /\ (f.k = "inf" \/ f.m # BZero)

\* f > g, for f >= 0 and g >= 0 (NaN compares false).
FGt(f, g) ==
    /\ f.k # "nan" /\ g.k # "nan"
    /\ g.k # "inf"
    /\ (f.k = "inf" \/ BGt(f.m, g.m))

\* Math.min(f, g) for f > 0 and g finite and positive.
FMin(f, g) == IF FGt(f, g) THEN g ELSE f

\* f - g for f >= g > 0, g finite.
FSub(f, g) == IF f.k = "inf" THEN f ELSE Fin(RoundDouble(BSub(f.m, g.m)))

\* The doubles written 0.01 and 0.1 in the source.
D0_01 == Fin(<<7381976, 14092861, 163, 0, 0>>)

D0_1 == Fin(<<6710912, 6710886, 1638, 0, 0>>)

\* A time in milliseconds, to the nearest (for times below 2^-2 s): the
\* bits from 41 up count units of 2^-22 s.
ToMs(f) ==
    LET top == (f.m[2] \div (2 ^ 16)) + f.m[3] * (2 ^ 8)
    IN  ((top * 1000) + 2 ^ 21) \div (2 ^ 22)

---------------------------------------------------------------------------
(* World: the static colliders, as axis-aligned boxes.                     *)

\* The world box of a BoxGeometry of the given size centred at c, no
\* rotation (sizes and centres written in 1e-3 units, as World.js writes
\* them: 10.5 is 10500).
BoxAt(c, size) ==
    [min |-> Vec(1000 * c.x - 500 * size.x, 1000 * c.y - 500 * size.y, 1000 * c.z - 500 * size.z),
     max |-> Vec(1000 * c.x + 500 * size.x, 1000 * c.y + 500 * size.y, 1000 * c.z + 500 * size.z)]

floor == BoxAt(Vec(0, -500, 0), Vec(20000, 1000, 34000))

\* World.createHoop(pos, facingForward): post, backboard and the four rim
\* boxes; pz is pos.z, zDir is 1 for the far hoop and -1 for the near one.
createHoop(pz, zDir) ==
    LET rimZ      == pz + 450 * zDir
        rimY      == 2800
        radius    == 300
        thickness == 50
    IN  << BoxAt(Vec(0, 1500, pz - 500 * zDir), Vec(300, 3000, 300)),
           BoxAt(Vec(0, 3000, pz), Vec(1800, 1200, 100)),
           BoxAt(Vec(0 - radius, rimY, rimZ), Vec(thickness, thickness, radius * 2)),
           BoxAt(Vec(0 + radius, rimY, rimZ), Vec(thickness, thickness, radius * 2)),
           BoxAt(Vec(0, rimY, rimZ - radius), Vec(radius * 2, thickness, thickness)),
           BoxAt(Vec(0, rimY, rimZ + radius), Vec(radius * 2, thickness, thickness)) >>

\* World.getCollidables(): floor, the four walls, the two hoops.
collidables ==
    << floor,
       BoxAt(Vec(10500, 2000, 0), Vec(1000, 5000, 34000)),
       BoxAt(Vec(-10500, 2000, 0), Vec(1000, 5000, 34000)),
       BoxAt(Vec(0, 2000, -17500), Vec(22000, 5000, 1000)),
       BoxAt(Vec(0, 2000, 17500), Vec(22000, 5000, 1000)) >>
    \o createHoop(-15000, 1) \o createHoop(15000, -1)

\* Box3.intersectsBox: touching boxes intersect.
intersectsBox(a, b) ==
    ~ \/ b.max.x < a.min.x \/ b.min.x > a.max.x
      \/ b.max.y < a.min.y \/ b.min.y > a.max.y
      \/ b.max.z < a.min.z \/ b.min.z > a.max.z

\* min(maxA, maxB) - max(minA, minB) on one axis.
Overlap(a, b, axis) == Min2(a.max[axis], b.max[axis]) - Max2(a.min[axis], b.min[axis])

\* Box3.getCenter on one axis, doubled (so that it stays an integer).
Center2(b, axis) == b.min[axis] + b.max[axis]

Axes == {"x", "y", "z"}

---------------------------------------------------------------------------
(* Ball                                                                    *)

radius == 150000

restitutionNum == 4

restitutionDen == 5

ballGravity == 15

dragDen == 2000

frictionDen == 500

subStepSize == D0_01

ballSpawn == Vec(0, 5000000, 0)

\* The cube of side 2 * radius around p (Ball.step, "Update Ball AABB").
BallBoxAt(p) ==
    [min |-> Vec(p.x - radius, p.y - radius, p.z - radius),
     max |-> Vec(p.x + radius, p.y + radius, p.z + radius)]

\* A contact axis that is y whatever the overlaps are.
AxisAlwaysY(bb, cb) == "y"

\* The axis of least overlap: y unless x is strictly less, then z if it is
\* strictly less than that.
LeastAxis(bb, cb) ==
    LET oy == Overlap(bb, cb, "y")
        ox == Overlap(bb, cb, "x")
        oz == Overlap(bb, cb, "z")
        a1 == IF ox < oy THEN "x" ELSE "y"
        m1 == IF ox < oy THEN ox ELSE oy
    IN  IF oz < m1 THEN "z" ELSE a1

\* A bounce that divides by the restitution where it should multiply.
RestituteInverted(v) ==
    Vec(RDiv(v.x * restitutionDen, restitutionNum),
        RDiv(v.y * restitutionDen, restitutionNum),
        RDiv(v.z * restitutionDen, restitutionNum))

\* velocity * restitution
Restitute(v) ==
    Vec(RDiv(v.x * restitutionNum, restitutionDen),
        RDiv(v.y * restitutionNum, restitutionDen),
        RDiv(v.z * restitutionNum, restitutionDen))

\* The response of Ball.step to one collider cb that ballBox intersects:
\* st holds potentialPos and velocity; ballBox is the box computed before
\* the loop over the colliders (it is not recomputed inside the loop).
\* A hit records the collider, the axis and sign of the push, whether the
\* velocity was reflected, potentialPos and the velocity before and after
\* the response, and the overlaps the push was computed from.
Bounce(st, bb, cb, dt) ==
    LET axis == LeastAxis(bb, cb)
        sign == Sign(2 * st.pos[axis] - Center2(cb, axis))
        pos1 == [st.pos EXCEPT ![axis] = @ + Overlap(bb, cb, axis) * sign]
        dot  == st.vel[axis] * sign
        refl == Restitute([st.vel EXCEPT ![axis] = @ - 2 * dot * sign])
        \* normal.multiplyScalar(2 * dot) has overwritten normal by the time
        \* Math.abs(normal.y) > 0.5 is tested: normal.y is 2 * dot * sign.
        fric == IF axis = "y" /\ Abs(2 * dot) > 500
                THEN [refl EXCEPT !.x = @ - RDiv(@ * dt, frictionDen),
                                  !.z = @ - RDiv(@ * dt, frictionDen)]
                ELSE refl
    IN  [pos |-> pos1, vel |-> IF dot < 0 THEN fric ELSE st.vel,
         hits |-> st.hits \o <<[box |-> cb, axis |-> axis, sign |-> sign, reflected |-> dot < 0,
                                 from |-> st.pos, to |-> pos1,
                                 velFrom |-> st.vel,
                                 velTo |-> IF dot < 0 THEN fric ELSE st.vel,
                                 overlap |-> [a \in Axes |-> Overlap(bb, cb, a)]]>>]

\* The collision responses for the boxes lo..hi of hit, in order: those of
\* the second half start from what the first half leaves.
RECURSIVE CollideRange(_, _, _, _, _, _)
CollideRange(st, bb, hit, lo, hi, dt) ==
    IF lo > hi THEN st
    ELSE IF lo = hi THEN Bounce(st, bb, hit[lo], dt)
    ELSE With(CollideRange(st, bb, hit, lo, (lo + hi) \div 2, dt),
              LAMBDA s : CollideRange(s, bb, hit, (lo + hi) \div 2 + 1, hi, dt))

\* The loop over the collidables in Ball.step from the i-th on.  The ball's
\* box is not moved inside the loop, so the collidables whose branch is
\* taken are those that intersect bb, whatever the earlier ones did.
CollideFrom(st, bb, cs, i, dt) ==
    With(SelectSeq(SubSeq(cs, i, Len(cs)), LAMBDA c : intersectsBox(bb, c)),
         LAMBDA hit : CollideRange(st, bb, hit, 1, Len(hit), dt))

\* Ball.step(dt, collidables) on a ball b, dt in milliseconds: the ball
\* after the step, and in hits the collisions of the step, in order.
step(b, dt, cs) ==
    LET vy  == b.velocity.y - ballGravity * dt
        vx  == b.velocity.x - RDiv(b.velocity.x * dt, dragDen)
        vz  == b.velocity.z - RDiv(b.velocity.z * dt, dragDen)
        pot == Vec(b.position.x + vx * dt, b.position.y + vy * dt, b.position.z + vz * dt)
        bb  == BallBoxAt(pot)
    IN  With(CollideFrom([pos |-> pot, vel |-> Vec(vx, vy, vz), hits |-> <<>>], bb, cs, 1, dt),
             LAMBDA end :
                 [ball |-> [b EXCEPT !.position = end.pos, !.velocity = end.vel, !.ballBox = bb],
                  hits |-> end.hits])

\* Ball.reset()
reset(b) == [b EXCEPT !.position = ballSpawn, !.velocity = VZero, !.owner = "none"]

\* A grab that leaves the ball its velocity.
grabKeepsVelocity(b, entity) == [b EXCEPT !.owner = entity]

\* Ball.grab(entity)
grab(b, entity) == [b EXCEPT !.owner = entity, !.velocity = VZero]

\* A release that does not look at the owner.
releaseAnyway(b, velocity) == [b EXCEPT !.velocity = velocity, !.owner = "none"]

\* Ball.release(velocity)
release(b, velocity) ==
    IF b.owner = "none" THEN b ELSE [b EXCEPT !.velocity = velocity, !.owner = "none"]

\* new THREE.Box3(): the empty box.
PosInf == 2 ^ 30

emptyBox == [min |-> Vec(PosInf, PosInf, PosInf), max |-> Vec(-PosInf, -PosInf, -PosInf)]

\* The ball as its constructor leaves it.
newBall == [position |-> ballSpawn, velocity |-> VZero, owner |-> "none", ballBox |-> emptyBox]

\* The floor-safety line of Ball.update, in 1e-6 units.
ballFloorLimit == -10000000

\* The loop body without "remainingTime -= dt".
SubStepNoProgress(b, remainingTime, cs) ==
    With(FMin(remainingTime, subStepSize),
         LAMBDA dt :
             With(step(b, ToMs(dt), cs),
                  LAMBDA s : [dt |-> dt, remainingTime |-> remainingTime,
                              ball |-> s.ball, hits |-> s.hits]))

\* One iteration of the while loop of Ball.update: dt, the remaining time
\* after it, and the ball after this.step(dt, collidables).
SubStepOf(b, remainingTime, cs) ==
    LET dt == FMin(remainingTime, subStepSize)
    IN  With(step(b, ToMs(dt), cs),
             LAMBDA s : [dt |-> dt, remainingTime |-> FSub(remainingTime, dt),
                         ball |-> s.ball, hits |-> s.hits])

\* Ball.update without its floor safety.
FloorSafetyOff(b) == b

\* The end of Ball.update: the floor safety.
FloorSafety(b) == IF b.position.y < ballFloorLimit THEN reset(b) ELSE b

\* Ball.update without its "if (this.owner) return".
UpdateRunsAlways(b) == TRUE

\* The entry of Ball.update: a held ball is left alone.
UpdateRuns(b) == b.owner = "none"

---------------------------------------------------------------------------
(* Player                                                                  *)

\* One hexadecimal digit of the integer square root of n: base plus the
\* most units whose square does not exceed n (46340 is the largest root of
\* a 32-bit integer).
SqrtDigit(n, base, unit) ==
    base + unit * Cardinality({k \in 1..15 : /\ base + k * unit <= 46340
                                              /\ (base + k * unit) * (base + k * unit) <= n})

\* The integer square root, digit by digit.
ISqrt(n) == SqrtDigit(n, SqrtDigit(n, SqrtDigit(n, SqrtDigit(n, 0, 4096), 256), 16), 1)

playerGravity == 30

jumpForce == 12000

playerHeight == 1600000

playerHalfWidth == 300000

speed == 6000

sprintNum == 17

sprintDen == 10

dampingDen == 100

accelDen == 5

epsilon == 1000

playerFloorLimit == -20000000

playerRespawn == Vec(0, 5000000, 5000000)

maxStamina == 60000

staminaDrainRate == 30

staminaRegenRate == 15

throwCooldownMs == 500

pickupRange == 2000

\* The directions the camera looks in: fwd is (0, 0, -1) turned by the
\* camera's quaternion, right is (1, 0, 0) turned by it, both times 1000.
\* Level looks along -z, +x, +z, -x, and one along -z raised by 45 degrees.
Looks ==
    [ north |-> [fwd |-> Vec(0, 0, -1000),   right |-> Vec(1000, 0, 0)],
      east  |-> [fwd |-> Vec(1000, 0, 0),    right |-> Vec(0, 0, 1000)],
      south |-> [fwd |-> Vec(0, 0, 1000),    right |-> Vec(-1000, 0, 0)],
      west  |-> [fwd |-> Vec(-1000, 0, 0),   right |-> Vec(0, 0, -1000)],
      up45  |-> [fwd |-> Vec(0, 707, -707),  right |-> Vec(1000, 0, 0)] ]

LookNames == DOMAIN Looks

\* v with y = 0, normalized (times 1000); the zero vector stays zero.
FlatUnit(v) ==
    With(ISqrt(v.x * v.x + v.z * v.z),
         LAMBDA len : IF len = 0 THEN VZero
                      ELSE Vec(RDiv(v.x * 1000, len), 0, RDiv(v.z * 1000, len)))

VAdd(a, b) == Vec(a.x + b.x, a.y + b.y, a.z + b.z)

VSub(a, b) == Vec(a.x - b.x, a.y - b.y, a.z - b.z)

\* tempDir of Player.update: the sum of the pressed directions, normalized.
MoveDir(p) ==
    LET f == FlatUnit(Looks[p.look].fwd)
        r == FlatUnit(Looks[p.look].right)
        a == IF p.moveForward THEN f ELSE VZero
        b == IF p.moveBackward THEN VSub(a, f) ELSE a
        c == IF p.moveRight THEN VAdd(b, r) ELSE b
        d == IF p.moveLeft THEN VSub(c, r) ELSE c
    IN  FlatUnit(d)

\* The player's box at camera position pos.
PlayerBoxAt(pos) ==
    [min |-> Vec(pos.x - playerHalfWidth, pos.y - playerHeight, pos.z - playerHalfWidth),
     max |-> Vec(pos.x + playerHalfWidth, pos.y, pos.z + playerHalfWidth)]

\* A correction that stops the player dead: every velocity component
\* set to zero.
CorrectStopsDead(st, eb, axis) ==
    LET pb == PlayerBoxAt(st.pos)
        o  == Overlap(pb, eb, axis)
    IN  IF o > 0
        THEN [st EXCEPT !.pos[axis] = @ - o * Sign(st.vel[axis]), !.vel = VZero,
                        !.corr = @ \o <<[box |-> eb, axis |-> axis, sign |-> -Sign(st.vel[axis]),
                                         overlap |-> o, from |-> st.pos,
                                         vel |-> st.vel[axis]]>>]
        ELSE st

\* The body of the loop of Player.resolveCollisions for a collider eb the
\* player's box intersects: st holds pos, vel, onGround and the list of
\* corrections made so far.
Correct(st, eb, axis) ==
    LET pb == PlayerBoxAt(st.pos)
        ox == Overlap(pb, eb, "x")
        oy == Overlap(pb, eb, "y")
        oz == Overlap(pb, eb, "z")
        o  == Overlap(pb, eb, axis)
        dir  == 2 * st.pos[axis] - Center2(eb, axis)
        sign == IF axis = "y"
                THEN (IF st.vel.y > 0 THEN -1 ELSE 1)
                ELSE (IF st.vel[axis] # 0 THEN -Sign(st.vel[axis]) ELSE Sign(dir))
    IN  IF Abs(ox) < epsilon \/ Abs(oy) < epsilon \/ Abs(oz) < epsilon THEN st
        ELSE IF o > 0
        THEN [pos |-> [st.pos EXCEPT ![axis] = @ + o * sign],
              vel |-> IF axis = "y" /\ st.vel.y = 0 THEN st.vel
                      ELSE [st.vel EXCEPT ![axis] = 0],
              onGround |-> st.onGround \/ (axis = "y" /\ st.vel.y <= 0),
              corr |-> st.corr \o <<[box |-> eb, axis |-> axis, sign |-> sign,
                                     overlap |-> o, from |-> st.pos,
                                     vel |-> st.vel[axis]]>>]
        ELSE st

\* The iterations lo..hi of the loop of Player.resolveCollisions, in
\* order: those of the second half start from what the first half leaves.
RECURSIVE ResolveRange(_, _, _, _, _)
ResolveRange(st, cs, lo, hi, axis) ==
    IF lo > hi THEN st
    ELSE IF lo = hi
    THEN (IF intersectsBox(PlayerBoxAt(st.pos), cs[lo]) THEN Correct(st, cs[lo], axis) ELSE st)
    ELSE With(ResolveRange(st, cs, lo, (lo + hi) \div 2, axis),
              LAMBDA s : ResolveRange(s, cs, (lo + hi) \div 2 + 1, hi, axis))

\* The loop of Player.resolveCollisions from the i-th collidable on.
ResolveFrom(st, cs, i, axis) == ResolveRange(st, cs, i, Len(cs), axis)

\* Player.resolveCollisions(collidables, axis)
resolveCollisions(st, cs, axis) == ResolveFrom(st, cs, 1, axis)

\* A direction key is down.
Moving(p) == p.moveForward \/ p.moveBackward \/ p.moveLeft \/ p.moveRight

\* The stamina logic without its two clamps.
StaminaUnclamped(p, d) ==
    IF p.isRunning /\ p.stamina > 0
    THEN (IF Moving(p) THEN p.stamina - staminaDrainRate * d ELSE p.stamina)
    ELSE p.stamina + staminaRegenRate * d

\* The stamina logic of Player.update: the stamina after the frame, d in
\* milliseconds, stamina in 1e-3 units.
StaminaAfter(p, d) ==
    IF p.isRunning /\ p.stamina > 0
    THEN (IF Moving(p) THEN Max2(p.stamina - staminaDrainRate * d, 0) ELSE p.stamina)
    ELSE Min2(p.stamina + staminaRegenRate * d, maxStamina)

\* Steps 1 and 2 of Player.update: damping, gravity, stamina, input
\* acceleration and the speed cap; d is delta in milliseconds.
Accelerate(p, d) ==
    LET vx0 == p.velocity.x - RDiv(p.velocity.x * d, dampingDen)
        vz0 == p.velocity.z - RDiv(p.velocity.z * d, dampingDen)
        vy  == p.velocity.y - playerGravity * d
        moving == Moving(p)
        usingSprint == p.isRunning /\ p.stamina > 0 /\ moving
        stamina == StaminaAfter(p, d)
        targetSpeed == IF usingSprint THEN (speed * sprintNum) \div sprintDen ELSE speed
        dir == MoveDir(p)
        vx1 == vx0 + RDiv(dir.x * d, accelDen)
        vz1 == vz0 + RDiv(dir.z * d, accelDen)
    IN  With(ISqrt(vx1 * vx1 + vz1 * vz1),
             LAMBDA cur :
                 [p EXCEPT !.stamina = stamina,
                           !.velocity = IF cur > targetSpeed
                                        THEN Vec(RDiv(vx1 * targetSpeed, cur), vy,
                                                 RDiv(vz1 * targetSpeed, cur))
                                        ELSE Vec(vx1, vy, vz1),
                           !.usingSprint = usingSprint])

\* One axis pass of step 3 of Player.update: move along the axis, resolve.
AxisPass(st, cs, axis, d) ==
    resolveCollisions([st EXCEPT !.pos[axis] = @ + st.vel[axis] * d], cs, axis)

\* Step 3 of Player.update: the x, z and y passes in that order; passes
\* records the state after each.
MoveAndResolve(p, cs, d) ==
    With(AxisPass([pos |-> p.position, vel |-> p.velocity, onGround |-> FALSE, corr |-> <<>>],
                  cs, "x", d),
         LAMBDA sx :
             With(AxisPass([sx EXCEPT !.corr = <<>>], cs, "z", d),
                  LAMBDA sz :
                      With(AxisPass([sz EXCEPT !.corr = <<>>], cs, "y", d),
                           LAMBDA sy : [x |-> sx, z |-> sz, y |-> sy])))

\* The player as its constructor leaves it, the camera where Game.init
\* puts it; locked says whether the pointer lock is held.
newPlayer ==
    [position |-> Vec(0, 2000000, 5000000), velocity |-> VZero, onGround |-> FALSE,
     hasBall |-> FALSE, throwCooldown |-> 0, stamina |-> maxStamina,
     moveForward |-> FALSE, moveBackward |-> FALSE, moveLeft |-> FALSE, moveRight |-> FALSE,
     isRunning |-> FALSE, showTrajectory |-> TRUE, currentPower |-> 20,
     look |-> "north", locked |-> FALSE, usingSprint |-> FALSE, trajectoryVisible |-> FALSE]

\* a.distanceTo(b) < range, range in 1e-3 units: compared in 1e-4 units.
Within(a, b, range) ==
    /\ Abs(a.x - b.x) < 1000 * range
    /\ Abs(a.y - b.y) < 1000 * range
    /\ Abs(a.z - b.z) < 1000 * range
    /\ LET dx == RDiv(a.x - b.x, 100)
           dy == RDiv(a.y - b.y, 100)
           dz == RDiv(a.z - b.z, 100)
       IN  dx * dx + dy * dy + dz * dz < 100 * range * range

\* Where the player carries the ball: 1 in front of the camera, 0.2 down.
HoldPos(p) ==
    LET f == Looks[p.look].fwd
    IN  Vec(p.position.x + 1000 * f.x, p.position.y + 1000 * f.y - 200000,
            p.position.z + 1000 * f.z)

\* The floor safety of Player.update.
PlayerFloorSafety(st) ==
    IF st.pos.y < playerFloorLimit THEN [st EXCEPT !.pos = playerRespawn, !.vel = VZero] ELSE st

\* Step 4 of Player.update, the ball: p1 is the player after the move.
\* reconciled says that the "we no longer own it" return was taken.
BallInteraction(p1, b) ==
    IF p1.hasBall
    THEN IF b.owner # "player"
         THEN [player |-> [p1 EXCEPT !.hasBall = FALSE], ball |-> b, reconciled |-> TRUE]
         ELSE [player |-> [p1 EXCEPT !.trajectoryVisible = p1.showTrajectory],
               ball |-> [b EXCEPT !.position = HoldPos(p1)], reconciled |-> FALSE]
    ELSE IF b.owner = "none" /\ p1.throwCooldown <= 0
            /\ Within(p1.position, b.position, pickupRange)
         THEN [player |-> [p1 EXCEPT !.hasBall = TRUE, !.trajectoryVisible = p1.showTrajectory],
               ball |-> grab(b, "player"), reconciled |-> FALSE]
         ELSE [player |-> [p1 EXCEPT !.trajectoryVisible = FALSE], ball |-> b,
               reconciled |-> FALSE]

---------------------------------------------------------------------------
(* Trajectory                                                              *)

pointCount == 30

\* stepSize, in milliseconds.
stepSize == 50

previewGravity == 15

\* drag is 0.5: one half.
previewDragDen == 2

\* The fractions of a segment are counted in 1/RayScale.
RayScale == 10000

\* The physics step of the preview: gravity on y, drag on x and z.
PreviewStep(vel) ==
    Vec(vel.x - RDiv(vel.x * stepSize, 1000 * previewDragDen),
        vel.y - previewGravity * stepSize,
        vel.z - RDiv(vel.z * stepSize, 1000 * previewDragDen))

\* Where the segment from p along d meets the slab of box b on axis a: the
\* fractions (in 1/RayScale) at which it enters and leaves, or, for a
\* segment parallel to the slab, whether it runs inside.  Lengths in 1e-3.
Slab(p, d, b, a) ==
    LET pm == RDiv(p[a], 1000)
        dm == RDiv(d[a], 1000)
        lo == RDiv(b.min[a], 1000)
        hi == RDiv(b.max[a], 1000)
    IN  IF dm = 0
        THEN [par |-> TRUE, inside |-> lo <= pm /\ pm <= hi, enter |-> 0, exit |-> 0]
        ELSE [par |-> FALSE, inside |-> TRUE,
              enter |-> RDiv((IF dm > 0 THEN lo - pm ELSE pm - hi) * RayScale, Abs(dm)),
              exit  |-> RDiv((IF dm > 0 THEN hi - pm ELSE pm - lo) * RayScale, Abs(dm))]

\* The raycast of one mesh: the fraction of the segment at which it enters
\* the box through a front face, -1 without such a hit (the faces are
\* single-sided: a segment starting inside the box hits nothing).
RayEnter(p, d, b) ==
    With([a \in Axes |-> Slab(p, d, b, a)],
         LAMBDA sl :
             LET cut    == {a \in Axes : ~sl[a].par}
                 tEnter == CHOOSE t \in {sl[a].enter : a \in cut} :
                               \A a \in cut : sl[a].enter <= t
                 tExit  == CHOOSE t \in {sl[a].exit : a \in cut} :
                               \A a \in cut : sl[a].exit >= t
             IN  IF cut = {} \/ \E a \in Axes : ~sl[a].inside
                 THEN -1
                 ELSE IF tEnter >= 0 /\ tEnter <= tExit /\ tEnter <= RayScale
                 THEN tEnter
                 ELSE -1)

\* raycaster.intersectObjects(collidables)[0]: the nearest hit, as the
\* fraction of the segment, -1 when nothing is hit.
FirstHit(p, d, cs) ==
    With({RayEnter(p, d, cs[i]) : i \in 1..Len(cs)} \ {-1},
         LAMBDA ts : IF ts = {} THEN -1 ELSE CHOOSE t \in ts : \A u \in ts : t <= u)

\* A dot of the preview, and a hidden one.
Dot(pos) == [position |-> pos, scale |-> 1]

hiddenDot == [position |-> Vec(0, -999000000, 0), scale |-> 0]

\* The segment's point at the fraction t (in 1/RayScale) of d from pos.
PointAt(pos, d, t) ==
    Vec(pos.x + RDiv(RDiv(d.x, 1000) * t, 10),
        pos.y + RDiv(RDiv(d.y, 1000) * t, 10),
        pos.z + RDiv(RDiv(d.z, 1000) * t, 10))

\* The simulation's own state at the start of the loop of
\* Trajectory.update: pos, vel, stopped, and no instance matrix set yet.
SimState(pos, vel, stopped, dots) ==
    [pos |-> pos, vel |-> vel, stopped |-> stopped, dots |-> dots]

\* One iteration that places the dot at the hit point and goes on
\* simulating from there, hiding nothing.
SimulateStepOn(st, cs) ==
    With(PreviewStep(st.vel),
         LAMBDA v1 :
             LET d == Vec(v1.x * stepSize, v1.y * stepSize, v1.z * stepSize)
             IN  With(FirstHit(st.pos, d, cs),
                      LAMBDA t :
                          With(IF t < 0 THEN VAdd(st.pos, d) ELSE PointAt(st.pos, d, t),
                               LAMBDA at : SimState(at, v1, FALSE,
                                                    Append(st.dots, Dot(at))))))

\* One iteration of the loop of Trajectory.update: a hidden dot once
\* stopped, else the physics step, the ray along the segment, and the dot
\* at the hit point or at the segment's end.
SimulateStep(st, cs) ==
    IF st.stopped
    THEN [st EXCEPT !.dots = Append(@, hiddenDot)]
    ELSE With(PreviewStep(st.vel),
              LAMBDA v1 :
                  LET d == Vec(v1.x * stepSize, v1.y * stepSize, v1.z * stepSize)
                  IN  With(FirstHit(st.pos, d, cs),
                           LAMBDA t :
                               With(IF t < 0 THEN VAdd(st.pos, d)
                                    ELSE PointAt(st.pos, d, t),
                                    LAMBDA at : SimState(at, v1, t >= 0,
                                                         Append(st.dots, Dot(at))))))

\* n iterations of Step from the state st, one after the other; the
\* second half of them starts from the state the first half leaves.
RECURSIVE Iterations(_, _, _, _)
Iterations(Step(_, _), st, n, cs) ==
    IF n <= 0 THEN st
    ELSE IF n = 1 THEN Step(st, cs)
    ELSE With(Iterations(Step, st, n \div 2, cs),
              LAMBDA half : Iterations(Step, half, n - n \div 2, cs))

\* A loop that places the dot at the hit point and goes on simulating
\* from there, hiding nothing.
SimulateOn(pos, vel, stopped, i, dots, cs) ==
    With(Iterations(SimulateStepOn, SimState(pos, vel, stopped, dots), pointCount - i, cs),
         LAMBDA st : [pos |-> st.pos, vel |-> st.vel, dots |-> st.dots])

\* The loop of Trajectory.update from dot i on: pos and vel are the
\* simulation's own vectors, dots the instance matrices set so far.
Simulate(pos, vel, stopped, i, dots, cs) ==
    With(Iterations(SimulateStep, SimState(pos, vel, stopped, dots), pointCount - i, cs),
         LAMBDA st : [pos |-> st.pos, vel |-> st.vel, dots |-> st.dots])

\* Trajectory.update with the simulation run on the vectors it is handed
\* instead of on clones of them.
TrajectoryUpdateInPlace(origin, velocity, cs) ==
    With(Simulate(origin, velocity, FALSE, 0, <<>>, cs),
         LAMBDA r : [visible |-> TRUE, samples |-> r.dots, last |-> r.pos,
                     origin |-> r.pos, velocity |-> r.vel, colliders |-> cs])

\* Trajectory.update(origin, velocity, collidables): the preview's
\* visibility and dots after it, the simulated point (pos) as the loop
\* leaves it, and the vectors and colliders it was handed as the call
\* leaves them (it simulates on clones).
TrajectoryUpdate(origin, velocity, cs) ==
    With(Simulate(origin, velocity, FALSE, 0, <<>>, cs),
         LAMBDA r : [visible |-> TRUE, samples |-> r.dots, last |-> r.pos,
                     origin |-> origin, velocity |-> velocity, colliders |-> cs])

\* Step 5 of Player.update for the player p and the ball b that step 4
\* leaves: the preview after it, given the preview before.  called says
\* that Trajectory.update ran; then args holds the vectors handed to it
\* and seen the player and the ball as they were at the call.
PreviewAfter(tr, p, b, cs) ==
    IF p.showTrajectory /\ p.hasBall
    THEN LET dir      == Looks[p.look].fwd
             spawnPos == Vec(p.position.x + 500 * dir.x, p.position.y + 500 * dir.y,
                             p.position.z + 500 * dir.z)
             velocity == Vec(dir.x * p.currentPower, dir.y * p.currentPower,
                             dir.z * p.currentPower)
         IN  With(TrajectoryUpdate(spawnPos, velocity, cs),
                  LAMBDA r : [visible |-> r.visible, samples |-> r.samples, called |-> TRUE,
                              last |-> r.last,
                              args |-> [origin |-> spawnPos, velocity |-> velocity,
                                        colliders |-> cs],
                              left |-> [origin |-> r.origin, velocity |-> r.velocity,
                                        colliders |-> r.colliders],
                              seen |-> [player |-> p, ball |-> b]])
    ELSE [tr EXCEPT !.visible = FALSE, !.called = FALSE]

\* Whether Player.update goes past its pointer-lock test.
UpdateProceeds(p) == p.locked

\* Player.update(delta, collidables), delta a double: the player and the
\* ball after it, and in passes the state after each axis pass.
PlayerUpdate(p, b, delta, cs) ==
    IF ~UpdateProceeds(p)
    THEN [player |-> [p EXCEPT !.velocity = VZero], ball |-> b, ran |-> FALSE,
          reconciled |-> FALSE]
    ELSE With(ToMs(delta),
         LAMBDA d :
         With(Accelerate(p, d),
         LAMBDA pa :
         With(MoveAndResolve(pa, cs, d),
         LAMBDA m :
         With(PlayerFloorSafety(m.y),
         LAMBDA end :
         With(BallInteraction(
                [pa EXCEPT !.position = end.pos, !.velocity = end.vel,
                           !.onGround = end.onGround,
                           !.throwCooldown = IF @ > 0 THEN @ - d ELSE @], b),
         LAMBDA r :
             [player |-> r.player, ball |-> r.ball, ran |-> TRUE,
              reconciled |-> r.reconciled, d |-> d, accelerated |-> pa,
              passes |-> m])))))

\* The preview after a Player.update with the result r: step 5 is reached
\* unless the update returned at the pointer-lock test or at the
\* ownership check of step 4.
PreviewOf(tr, r) ==
    IF ~r.ran \/ r.reconciled
    THEN [tr EXCEPT !.called = FALSE]
    ELSE PreviewAfter(tr, r.player, r.ball, collidables)

noPass == [pos |-> VZero, vel |-> VZero, onGround |-> FALSE, corr |-> <<>>]

\* Nothing observed yet of Player.update.
noPobs == [frames |-> 0, ran |-> FALSE, d |-> 0, before |-> newPlayer,
           accelerated |-> newPlayer, x |-> noPass, z |-> noPass, y |-> noPass]

\* A keydown handler whose Space jumps from anywhere, in the air too.
onKeyJumpsInAir(p, code) ==
    IF code = "Space" THEN [p EXCEPT !.velocity.y = jumpForce] ELSE p

\* The keydown handler (onKey) for the movement keys, the preview toggle
\* and the power keys.
onKey(p, code) ==
    CASE code = "KeyW" -> [p EXCEPT !.moveForward = TRUE]
      [] code = "KeyA" -> [p EXCEPT !.moveLeft = TRUE]
      [] code = "KeyS" -> [p EXCEPT !.moveBackward = TRUE]
      [] code = "KeyD" -> [p EXCEPT !.moveRight = TRUE]
      [] code = "Space" -> IF p.onGround THEN [p EXCEPT !.velocity.y = jumpForce] ELSE p
      [] code = "ShiftLeft" -> [p EXCEPT !.isRunning = TRUE]
      [] code = "KeyL" -> [p EXCEPT !.showTrajectory = ~@]
      [] code = "Equal" -> [p EXCEPT !.currentPower = Min2(@ + 35, 35)]
      [] code = "Minus" -> [p EXCEPT !.currentPower = Max2(@ - 1, 10)]
      [] OTHER -> p

\* The keyup handler (onKeyUp).
onKeyUp(p, code) ==
    CASE code = "KeyW" -> [p EXCEPT !.moveForward = FALSE]
      [] code = "KeyA" -> [p EXCEPT !.moveLeft = FALSE]
      [] code = "KeyS" -> [p EXCEPT !.moveBackward = FALSE]
      [] code = "KeyD" -> [p EXCEPT !.moveRight = FALSE]
      [] code = "ShiftLeft" -> [p EXCEPT !.isRunning = FALSE]
      [] OTHER -> p

\* A throw that starts no cooldown.
mousedownNoCooldown(p, b, button) ==
    IF p.locked /\ button = 0 /\ p.hasBall
    THEN [player |-> [p EXCEPT !.hasBall = FALSE],
          ball |-> release(b, Vec(Looks[p.look].fwd.x * p.currentPower,
                                   Looks[p.look].fwd.y * p.currentPower,
                                   Looks[p.look].fwd.z * p.currentPower))]
    ELSE [player |-> p, ball |-> b]

\* The mousedown handler: with the pointer locked and the left button, a
\* player who has the ball throws it along the camera direction.
mousedown(p, b, button) ==
    IF p.locked /\ button = 0 /\ p.hasBall
    THEN [player |-> [p EXCEPT !.hasBall = FALSE, !.throwCooldown = throwCooldownMs],
          ball |-> release(b, Vec(Looks[p.look].fwd.x * p.currentPower,
                                   Looks[p.look].fwd.y * p.currentPower,
                                   Looks[p.look].fwd.z * p.currentPower))]
    ELSE [player |-> p, ball |-> b]

---------------------------------------------------------------------------
(* Game                                                                    *)

\* The frame delta passed on unclamped.
NoClamp(raw) == raw

\* Game.animate: const delta = Math.min(this.clock.getDelta(), 0.1).
ClampDelta(raw) == FMin(raw, D0_1)

\* World.createTrigger as createHoop calls it: 0.3 under the rim centre.
createTrigger(pz, zDir) == BoxAt(Vec(0, 2500, pz + 450 * zDir), Vec(500, 200, 500))

\* World.getTriggers(): the far hoop's, then the near hoop's.
triggers == << createTrigger(-15000, 1), createTrigger(15000, -1) >>

\* The delay of the reset that checkScoring schedules, in milliseconds.
scoreResetDelay == 1000

noTimer == [pending |-> FALSE, elapsed |-> 0]

noCall == [made |-> FALSE, locked |-> FALSE, stale |-> FALSE, cleared |-> FALSE,
           ballMoved |-> FALSE]

\* The game as Game.init leaves it, the socket connected.
newGame == [score |-> 0, botScore |-> 0, justScored |-> FALSE, timer |-> noTimer,
            connected |-> TRUE, ticks |-> 0, events |-> 0, reads |-> <<>>, call |-> noCall]

\* One read of player.hasBall, and ball.owner at that moment.
ReadAt(site, p, b) == [site |-> site, hasBall |-> p.hasBall, owner |-> b.owner]

RECURSIVE RunSteps(_, _, _, _)
\* At most n iterations of the while loop of Ball.update from the ball b
\* with the remaining time, as long as the time is positive: the ball and
\* the remaining time after them.  The second half of the iterations
\* starts from what the first half leaves.
RunSteps(b, remainingTime, n, cs) ==
    IF ~FPositive(remainingTime) THEN [ball |-> b, remainingTime |-> remainingTime]
    ELSE IF n <= 1 THEN SubStepOf(b, remainingTime, cs)
    ELSE With(RunSteps(b, remainingTime, n \div 2, cs),
              LAMBDA s : RunSteps(s.ball, s.remainingTime, n - n \div 2, cs))

RECURSIVE RunLoop(_, _, _)
\* while (remainingTime > 0) { ... } of Ball.update, run to its end,
\* eight iterations at a time.
RunLoop(b, remainingTime, cs) ==
    With(RunSteps(b, remainingTime, 8, cs),
         LAMBDA s : IF FPositive(s.remainingTime)
                    THEN RunLoop(s.ball, s.remainingTime, cs)
                    ELSE s.ball)

\* Ball.update(delta, collidables), from entry to return.
BallUpdate(b, delta, cs) ==
    IF ~UpdateRuns(b) THEN b ELSE FloorSafety(RunLoop(b, delta, cs))

\* The loop body without the test of justScored.
ScoreAtAgain(g, b, trigger) ==
    IF intersectsBox(trigger, b.ballBox) /\ b.velocity.y < 0
    THEN [g EXCEPT !.score = IF Center2(trigger, "z") < 0 THEN @ + 1 ELSE @,
                   !.botScore = IF Center2(trigger, "z") < 0 THEN @ ELSE @ + 1,
                   !.justScored = TRUE,
                   !.timer = [pending |-> TRUE, elapsed |-> 0]]
    ELSE g

\* The body of the loop of Game.checkScoring for one trigger.
ScoreAt(g, b, trigger) ==
    IF intersectsBox(trigger, b.ballBox) /\ b.velocity.y < 0 /\ ~g.justScored
    THEN [g EXCEPT !.score = IF Center2(trigger, "z") < 0 THEN @ + 1 ELSE @,
                   !.botScore = IF Center2(trigger, "z") < 0 THEN @ ELSE @ + 1,
                   !.justScored = TRUE,
                   !.timer = [pending |-> TRUE, elapsed |-> 0]]
    ELSE g

\* Game.checkScoring()
checkScoring(g, b) == ScoreAt(ScoreAt(g, b, triggers[1]), b, triggers[2])

\* Game.animate(), raw the clock's delta: the emit of ball_update, then
\* Player.update, Ball.update and checkScoring.  The time the clock
\* measured has also passed for the pending reset timer.
animate(p, b, g, raw) ==
    With(PlayerUpdate(p, b, ClampDelta(raw), collidables),
    LAMBDA r :
    With(BallUpdate(r.ball, ClampDelta(raw), collidables),
    LAMBDA b2 :
        [player |-> r.player,
         ball |-> b2,
         update |-> r,
         game |-> checkScoring(
             [g EXCEPT !.ticks = @ + 1,
                       !.timer.elapsed = IF g.timer.pending THEN @ + ToMs(raw) ELSE @,
                       !.reads = (IF g.connected THEN <<ReadAt("emit", p, b)>> ELSE <<>>)
                                 \o (IF r.ran THEN <<ReadAt("hold", p, b)>> ELSE <<>>),
                       !.call = [made |-> TRUE, locked |-> p.locked,
                                 stale |-> p.hasBall /\ b.owner # "player",
                                 cleared |-> ~r.player.hasBall,
                                 ballMoved |-> r.ball.position # b.position]],
             b2)]))

\* The callback of the setTimeout of checkScoring.
scoreTimeout(b, g) ==
    [ball |-> reset(b), game |-> [g EXCEPT !.justScored = FALSE, !.timer = noTimer]]

\* The ball_updated handler of Game.init; ownerId is "me" for this
\* client's socket id, "none" for null.
ball_updated(p, b, data) ==
    IF ~p.hasBall
    THEN [b EXCEPT !.position = data.position, !.velocity = data.velocity,
                   !.owner = IF data.ownerId = "me" THEN "player" ELSE "none"]
    ELSE b

---------------------------------------------------------------------------
(* Bot.calculateShotVelocity                                               *)

\* tan, cos, sin and 2 * cos^2 of the launch angles, times 10000.
Trig ==
    45 :> [tan |-> 10000, cos |-> 7071, sin |-> 7071, twoCosSq |-> 10000] @@
    60 :> [tan |-> 17321, cos |-> 5000, sin |-> 8660, twoCosSq |-> 5000] @@
    70 :> [tan |-> 27475, cos |-> 3420, sin |-> 9397, twoCosSq |-> 2340]

botGravity == 15

\* A JavaScript number: an integer of the fixed-point scale, or NaN.
Num(n) == [nan |-> FALSE, v |-> n]

NaN == [nan |-> TRUE, v |-> 0]

\* a / b as JavaScript divides: 0 / 0 is NaN (b is never 0 with a # 0
\* here).
JSDiv(a, b) == IF b = 0 THEN NaN ELSE Num(RDiv(a, b))

\* diffXZ.length(): the horizontal distance from start to target.
HorizontalDistance(startPos, targetPos) ==
    ISqrt((targetPos.x - startPos.x) * (targetPos.x - startPos.x)
          + (targetPos.z - startPos.z) * (targetPos.z - startPos.z))

\* term3: x * tan(angle) - y
TermThree(startPos, targetPos, angleDeg) ==
    RDiv(HorizontalDistance(startPos, targetPos) * Trig[angleDeg].tan, 10000)
        - (targetPos.y - startPos.y)

\* The divisor of a normalize() that divides by the length as it is.
LengthAsIs(len) == len

\* The divisor of Vector3.normalize(): length() || 1.
LengthOrOne(len) == IF len = 0 THEN 1 ELSE len

\* Bot.calculateShotVelocity(startPos, targetPos, angleDeg), positions in
\* 1e-3 units, the velocity in 1e-3 units per second; null says that the
\* function returned null.
calculateShotVelocity(startPos, targetPos, angleDeg) ==
    LET diff  == VSub(targetPos, startPos)
        t     == Trig[angleDeg]
    IN  With(HorizontalDistance(startPos, targetPos),
        LAMBDA x :
        With(TermThree(startPos, targetPos, angleDeg),
        LAMBDA term3 :
            IF term3 <= 0 THEN [null |-> TRUE, x |-> Num(0), y |-> Num(0), z |-> Num(0)]
            ELSE With(ISqrt(RDiv(RDiv(x * x, term3) * botGravity * 1000, t.twoCosSq) * 10000),
                 LAMBDA v :
                 With(RDiv(v * t.cos, 10000),
                 LAMBDA vH :
                     [null |-> FALSE,
                      x |-> JSDiv(diff.x * vH, LengthOrOne(x)),
                      y |-> Num(RDiv(v * t.sin, 10000)),
                      z |-> JSDiv(diff.z * vH, LengthOrOne(x))]))))

\* The gravity update and the move of Ball.step, without drag and without
\* colliders; dt in milliseconds.
GravityStep(b, dt) ==
    LET vy == b.velocity.y - ballGravity * dt
    IN  [b EXCEPT !.velocity.y = vy,
                  !.position = Vec(b.position.x + b.velocity.x * dt,
                                   b.position.y + vy * dt,
                                   b.position.z + b.velocity.z * dt)]

\* No shot solved yet.
noShot == [solved |-> FALSE, start |-> VZero, target |-> VZero, angle |-> 45,
           result |-> [null |-> TRUE, x |-> Num(0), y |-> Num(0), z |-> Num(0)],
           ball |-> newBall, steps |-> 0, best |-> 0]

---------------------------------------------------------------------------
(* Bot.update                                                              *)

botSpeed == 6000

botSprintNum == 17

botSprintDen == 10

botMaxStamina == 60000

botDrainRate == 30

botRegenRate == 15

\* The bot as its constructor leaves it.  shootDistance 0 stands for
\* undefined or null, the timers count milliseconds.
newBot ==
    [position |-> Vec(0, 1000000, -10000000), stamina |-> botMaxStamina, hasBall |-> FALSE,
     shootDistance |-> 0, aimingTime |-> 0, stealTimer |-> 0, sprinted |-> FALSE]

\* targetHoop as the bot's movement uses it: (0, 0, 15).
botHoop == Vec(0, 0, 15000000)

\* v.normalize() for a difference of positions (1e-6 units), times 1000.
Unit3(v) ==
    LET x == RDiv(v.x, 1000)
        y == RDiv(v.y, 1000)
        z == RDiv(v.z, 1000)
    IN  With(LengthOrOne(ISqrt(x * x + y * y + z * z)),
             LAMBDA len : Vec(RDiv(x * 1000, len), RDiv(y * 1000, len), RDiv(z * 1000, len)))

\* position.addScaledVector(dir, spd * delta) with dir.y = 0: dir times
\* 1000, spd in 1e-3 units per second, d in milliseconds.
BotMove(pos, dir, spd, d) ==
    Vec(pos.x + RDiv(dir.x * spd * d, 1000), pos.y, pos.z + RDiv(dir.z * spd * d, 1000))

\* The end of Bot.update: y = 1, x within [-9, 9], z within [-16, 16].
BotClamp(pos) ==
    Vec(Max2(-9000000, Min2(9000000, pos.x)), 1000000, Max2(-16000000, Min2(16000000, pos.z)))

\* The stamina lines of the bot's run to the hoop (it always wants to
\* sprint there).
BotStaminaAfter(stamina, d) ==
    Max2(0, Min2(botMaxStamina,
                 IF stamina > 0 THEN stamina - botDrainRate * d ELSE stamina + botRegenRate * d))

\* The bot's shot from where it stands, aimed at the centre of the near
\* rim at 70 degrees.
BotShot(bt) ==
    calculateShotVelocity(Vec(RDiv(bt.position.x, 1000), RDiv(bt.position.y, 1000),
                              RDiv(bt.position.z, 1000)),
                          Vec(0, 2800, 14550), 70)

\* A shot that fails without a fallback: no velocity at all.
ShotOrNothing(v) == IF v.null THEN VZero ELSE Vec(v.x.v, v.y.v, v.z.v)

\* The velocity the bot releases the ball with: the solved one, or
\* (0, 10, 0) when calculateShotVelocity returned null.
ShotOrFallback(v) == IF v.null THEN Vec(0, 10000, 0) ELSE Vec(v.x.v, v.y.v, v.z.v)

\* The bot is within its shooting distance of the hoop; rnd is the
\* distance drawn when none is set.
InShootingRange(bt, rnd) ==
    LET sd == IF bt.shootDistance = 0 THEN rnd ELSE bt.shootDistance
        dx == RDiv(bt.position.x - botHoop.x, 1000)
        dz == RDiv(bt.position.z - botHoop.z, 1000)
    IN  ISqrt(dx * dx + dz * dz) <= sd

\* The attack branch of Bot.update: the bot has the ball.  rnd is the
\* value 6 + Math.random() * 8 would give, in 1e-3 units.
BotAttack(bt, b, d, rnd) ==
    LET sd   == IF bt.shootDistance = 0 THEN rnd ELSE bt.shootDistance
        dx   == RDiv(bt.position.x - botHoop.x, 1000)
        dz   == RDiv(bt.position.z - botHoop.z, 1000)
        hold(pos) == Vec(pos.x, pos.y + 1500000, pos.z + 500000)
    IN  IF ISqrt(dx * dx + dz * dz) > sd
        THEN LET dir == Unit3(VSub(botHoop, bt.position))
                 spd == IF bt.stamina > 0 THEN (botSpeed * botSprintNum) \div botSprintDen
                                          ELSE botSpeed
                 pos == BotMove(bt.position, dir, spd, d)
             IN  [bot |-> [bt EXCEPT !.shootDistance = sd, !.position = pos,
                                     !.stamina = BotStaminaAfter(bt.stamina, d),
                                     !.sprinted = bt.stamina > 0],
                  ball |-> [b EXCEPT !.position = hold(pos)]]
        ELSE IF bt.aimingTime + d > 200
        THEN With(BotShot(bt),
                  LAMBDA v :
                      [bot |-> [bt EXCEPT !.shootDistance = 0, !.aimingTime = 0,
                                          !.hasBall = FALSE, !.sprinted = FALSE],
                       ball |-> [release(b, ShotOrFallback(v))
                                 EXCEPT !.position = hold(bt.position)]])
        ELSE [bot |-> [bt EXCEPT !.shootDistance = sd, !.aimingTime = @ + d,
                                 !.sprinted = FALSE],
              ball |-> [b EXCEPT !.position = hold(bt.position)]]

\* The chase branch: the ball is loose.
BotChase(bt, b, d) ==
    LET dir == Unit3(VSub(b.position, bt.position))
        pos == BotMove(bt.position, dir, botSpeed, d)
    IN  IF Within(bt.position, b.position, 1500)
        THEN [bot |-> [bt EXCEPT !.position = pos, !.hasBall = TRUE, !.sprinted = FALSE],
              ball |-> grab(b, "bot")]
        ELSE [bot |-> [bt EXCEPT !.position = pos, !.sprinted = FALSE], ball |-> b]

\* The defend branch: the player has the ball.
BotDefend(bt, b, p, d) ==
    LET dir == Unit3(VSub(b.position, bt.position))
        pos == BotMove(bt.position, dir, (botSpeed * 9) \div 10, d)
    IN  IF Within(pos, p.position, 2000)
        THEN IF bt.stealTimer + d > 1000
             THEN [bot |-> [bt EXCEPT !.position = pos, !.hasBall = TRUE, !.stealTimer = 0,
                                      !.sprinted = FALSE],
                   ball |-> grab(b, "bot"), player |-> [p EXCEPT !.hasBall = FALSE]]
             ELSE [bot |-> [bt EXCEPT !.position = pos, !.stealTimer = @ + d,
                                      !.sprinted = FALSE],
                   ball |-> b, player |-> p]
        ELSE [bot |-> [bt EXCEPT !.position = pos, !.stealTimer = 0, !.sprinted = FALSE],
              ball |-> b, player |-> p]

\* Bot.update(delta, collidables), d in milliseconds: the bot, the ball
\* and the player after it.  sprinted (an observation) says that the
\* stamina lines ran with stamina left.
BotUpdate(bt, b, p, d, rnd) ==
    With(IF bt.hasBall
         THEN With(BotAttack(bt, b, d, rnd),
                   LAMBDA r : [bot |-> r.bot, ball |-> r.ball, player |-> p])
         ELSE IF b.owner = "none"
         THEN With(BotChase(bt, b, d),
                   LAMBDA r : [bot |-> r.bot, ball |-> r.ball, player |-> p])
         ELSE BotDefend(bt, b, p, d),
         LAMBDA r : [r EXCEPT !.bot.position = BotClamp(@)])

---------------------------------------------------------------------------
(* The steal                                                               *)

\* The reach of a steal, in 1e-3 units, and the least cosine (times 1000)
\* between the camera's forward and the direction to the ball.
stealRange == 3000

stealAim == 900

\* a.distanceTo(b) > range, range in 1e-3 units, compared in 1e-3 units.
Beyond(a, b, range) ==
    \/ \E c \in Axes : Abs(a[c] - b[c]) > 1000 * range
    \/ LET dx == RDiv(a.x - b.x, 1000)
           dy == RDiv(a.y - b.y, 1000)
           dz == RDiv(a.z - b.z, 1000)
       IN  dx * dx + dy * dy + dz * dz > range * range

\* Player.attemptSteal() (the KeyE keydown): a player without the ball,
\* within reach of a held ball and looking at it, takes it.
attemptSteal(p, b) ==
    IF p.hasBall \/ b.owner = "none" \/ Beyond(p.position, b.position, stealRange)
    THEN [player |-> p, ball |-> b]
    ELSE LET fwd    == Looks[p.look].fwd
             toBall == Unit3(VSub(b.position, p.position))
             dot    == RDiv(fwd.x * toBall.x + fwd.y * toBall.y + fwd.z * toBall.z, 1000)
         IN  IF dot > stealAim
             THEN [player |-> [p EXCEPT !.hasBall = TRUE, !.throwCooldown = throwCooldownMs],
                   ball |-> grab(b, "player")]
             ELSE [player |-> p, ball |-> b]

---------------------------------------------------------------------------
(* RemotePlayer and the relay server                                       *)

\* A quaternion, its components times 1000.
Quat(x, y, z, w) == [x |-> x, y |-> y, z |-> z, w |-> w]

\* { ...state, ...data }: the fields data carries replace those of state.
Spread(state, data) ==
    [f \in DOMAIN state \cup DOMAIN data |-> IF f \in DOMAIN data THEN data[f] ELSE state[f]]

\* players[socket.id] as the server's connection handler creates it.
newServerPlayer ==
    [position |-> Vec(0, 2000000, 0), quaternion |-> Quat(0, 0, 0, 1000)]

\* ballState as the server starts with it.
newBallState == [ownerId |-> "none", position |-> ballSpawn, velocity |-> VZero]

\* new RemotePlayer(scene, id, initialData)
RemotePlayer(initialData) ==
    LET position   == IF "position" \in DOMAIN initialData THEN initialData.position ELSE VZero
        quaternion == IF "quaternion" \in DOMAIN initialData THEN initialData.quaternion
                      ELSE Quat(0, 0, 0, 1000)
    IN  [targetPosition |-> position, targetQuaternion |-> quaternion,
         mesh |-> [position |-> position, quaternion |-> Quat(0, 0, 0, 1000)]]

\* RemotePlayer.updateData(data)
updateData(rp, data) ==
    [rp EXCEPT !.targetPosition = IF "position" \in DOMAIN data THEN data.position ELSE @,
               !.targetQuaternion = IF "quaternion" \in DOMAIN data THEN data.quaternion ELSE @]

\* Quaternion.slerp(qb, t) at its two early returns, t times 1000: t = 0
\* leaves the quaternion, t = 1 copies qb.
slerp(qa, qb, t) ==
    CASE t = 0 -> qa
      [] t = 1000 -> qb

\* RemotePlayer.update(delta), d in milliseconds: lerpFactor is 10 * delta.
RemoteUpdate(rp, d) ==
    [rp EXCEPT !.mesh.position =
                   Vec(@.x + RDiv((rp.targetPosition.x - @.x) * d, 100),
                       @.y + RDiv((rp.targetPosition.y - @.y) * d, 100),
                       @.z + RDiv((rp.targetPosition.z - @.z) * d, 100)),
               !.mesh.quaternion = slerp(@, rp.targetQuaternion, 10 * d)]

\* The server's player_update handler: the merged players entry and the
\* player_moved message it broadcasts.
player_update(server, data) ==
    [server |-> [server EXCEPT !.player = Spread(@, data)],
     msg |-> [type |-> "player_moved", data |-> data]]

\* The server's ball_update handler: the merged ballState, which is also
\* what it broadcasts as ball_updated.
ball_update(server, data) ==
    With(Spread(server.ballState, data),
         LAMBDA merged : [server |-> [server EXCEPT !.ballState = merged],
                          msg |-> [type |-> "ball_updated", data |-> merged]])

\* The relay with one other player connected and known to this client;
\* got and ballGot are the updates this client has received since its last
\* frame, atTick the remote player's targets and the ball at that frame.
noRelay ==
    [server |-> [player |-> newServerPlayer, ballState |-> newBallState],
     msgs |-> <<>>,
     remote |-> RemotePlayer(newServerPlayer),
     got |-> <<>>, ballGot |-> <<>>,
     atTick |-> [targetPosition |-> newServerPlayer.position,
                 targetQuaternion |-> newServerPlayer.quaternion],
     sent |-> 0, ticks |-> 0]

---------------------------------------------------------------------------
(* The states of the parts a specification leaves alone.                   *)

\* No preview computed yet: the preview hidden, its dots where the
\* constructor leaves them.
noTraj ==
    [visible |-> FALSE, samples |-> <<>>, called |-> FALSE, last |-> VZero,
     args |-> [origin |-> VZero, velocity |-> VZero, colliders |-> <<>>],
     left |-> [origin |-> VZero, velocity |-> VZero, colliders |-> <<>>],
     seen |-> [player |-> newPlayer, ball |-> newBall]]

\* No interval compared yet.
noChunk == [start |-> newBall, one |-> newBall, five |-> newBall, oneDone |-> FALSE,
            calls |-> 0, rounds |-> 0]

\* No frame observed yet.
noSprint == [frames |-> 0, ran |-> FALSE, d |-> 0, before |-> newPlayer,
             exhausted |-> FALSE, wasExhausted |-> FALSE, botFrames |-> 0,
             botBefore |-> newBot]

\* socket.emit, socket.broadcast.emit and io.emit: the event, the sockets
\* it goes to and its data.
Emit(event, to, data) == [event |-> event, to |-> to, data |-> data]

\* The server as it starts to listen: no socket, no player, the ball at its
\* spawn.  used are the socket ids given out so far, own says that every
\* ball_update so far named its sender as the owner, n and last are the
\* number of handlers run and what the last one was.
newServer ==
    [sockets |-> {}, used |-> {}, players |-> [id \in {} |-> newServerPlayer],
     ballState |-> newBallState, emitted |-> <<>>, own |-> TRUE, n |-> 0,
     last |-> [op |-> "none", id |-> "none", ballState |-> newBallState]]

\* io.on('connection'): the socket, its id new, gets its players entry,
\* init goes to it and player_joined to the others.
connection(sv, id) ==
    With([k \in DOMAIN sv.players \cup {id} |->
              IF k = id THEN newServerPlayer ELSE sv.players[k]],
         LAMBDA players :
             [sv EXCEPT !.sockets = @ \cup {id},
                        !.used = @ \cup {id},
                        !.players = players,
                        !.emitted = << Emit("init", {id}, [players |-> players,
                                                          ballState |-> sv.ballState]),
                                       Emit("player_joined", sv.sockets \ {id},
                                            newServerPlayer) >>])

\* socket.on('player_update') of socket id.
socket_player_update(sv, id, data) ==
    IF id \in DOMAIN sv.players
    THEN With(player_update([player |-> sv.players[id]], data),
              LAMBDA r : [sv EXCEPT !.players[id] = r.server.player,
                                    !.emitted = <<Emit("player_moved", sv.sockets \ {id},
                                                       r.msg.data)>>])
    ELSE [sv EXCEPT !.emitted = <<>>]

\* socket.on('ball_update') of socket id.
socket_ball_update(sv, id, data) ==
    With(ball_update(sv, data),
         LAMBDA r : [r.server EXCEPT !.emitted = <<Emit("ball_updated", sv.sockets \ {id},
                                                        r.msg.data)>>])

\* A disconnect handler that leaves ballState as it is.
disconnectKeepsBall(sv, id) ==
    [sv EXCEPT !.sockets = @ \ {id},
               !.players = [k \in DOMAIN sv.players \ {id} |-> sv.players[k]],
               !.emitted = <<Emit("player_left", sv.sockets \ {id}, id)>>]

\* socket.on('disconnect') of socket id; io.emit reaches the sockets that
\* are still connected.
disconnect(sv, id) ==
    [sv EXCEPT !.sockets = @ \ {id},
               !.players = [k \in DOMAIN sv.players \ {id} |-> sv.players[k]],
               !.ballState = IF @.ownerId = id
                             THEN [@ EXCEPT !.ownerId = "none", !.velocity = VZero,
                                            !.position = ballSpawn]
                             ELSE @,
               !.emitted = <<Emit("player_left", sv.sockets \ {id}, id)>>
                           \o (IF sv.ballState.ownerId = id
                               THEN <<Emit("ball_updated", sv.sockets \ {id},
                                           [sv.ballState EXCEPT !.ownerId = "none",
                                                                !.velocity = VZero,
                                                                !.position = ballSpawn])>>
                               ELSE <<>>)]

\* No operation observed yet.
noDuel == [op |-> "none", n |-> 0, bot |-> newBot, player |-> newPlayer, ball |-> newBall,
           rnd |-> 0]

---------------------------------------------------------------------------
(* SpecBall: one call of Ball.update, an iteration of its loop at a time.  *)

MaxSteps == 12

idleUpd == [pc |-> "idle", via |-> "none", delta |-> FZero, remainingTime |-> FZero]

noObs == [steps |-> 0, consumed |-> BZero, lastDt |-> FZero, stalled |-> FALSE,
          before |-> newBall, hits |-> <<>>, resets |-> 0]

\* Doubles a frame clock or a caller can hand over: 0.005, 0.01, 0.016,
\* 0.025, 0.05, 0.1, 0.25 and 2^48 seconds.
D0_005 == Fin(<<12079596, 15435038, 81, 0, 0>>)

D0_016 == Fin(<<1744832, 2415919, 262, 0, 0>>)

D0_025 == Fin(<<10066336, 10066329, 409, 0, 0>>)

D0_05 == Fin(<<3355456, 3355443, 819, 0, 0>>)

D0_25 == Fin(<<0, 0, 4096, 0, 0>>)

DHuge == Fin(<<0, 0, 0, 0, 16384>>)

\* clock.getDelta(): never negative.
ClockDeltas == {FZero, D0_005, D0_016, D0_05, D0_1, D0_25}

\* Any number a caller of Ball.update can pass.
AnyDeltas == {FZero, FNeg(D0_01.m), FNaN, D0_005, D0_01, D0_016, D0_025, D0_05, D0_1, DHuge, FInf}

\* Balls in flight, at rest, held, beside a wall, at a rim, below the
\* court, and coming down on the corner of the far rim where two of its
\* pieces meet.
BallStarts ==
    { newBall,
      [newBall EXCEPT !.position = Vec(0, 150000, 0)],
      [newBall EXCEPT !.position = Vec(0, 200000, 0), !.velocity = Vec(0, -6000, 0)],
      [newBall EXCEPT !.position = Vec(9800000, 1000000, 0), !.velocity = Vec(8000, 2000, 3000)],
      [newBall EXCEPT !.position = Vec(-500000, 2810000, -14550000), !.velocity = Vec(10000, 150, 0)],
      [newBall EXCEPT !.position = Vec(12000000, -9950000, 0), !.velocity = Vec(0, -8000, 0)],
      [newBall EXCEPT !.position = Vec(-300000, 2990000, -14250000),
                      !.velocity = Vec(0, -3000, 0)],
      [newBall EXCEPT !.position = Vec(0, 1800000, 4000000), !.owner = "player"] }

\* The ball reverses on the floor in this step.
FloorBounce(hits) ==
    \E i \in 1..Len(hits) : hits[i].box = floor /\ hits[i].axis = "y" /\ hits[i].reflected

\* The apex record after a step that committed height y: cur is the
\* greatest height since the last floor bounce (the contact height
\* included), last and prev the greatest heights of the two intervals
\* between bounces before it, n the number of bounces, counted up to 2.
ApexAfter(a, hits, y) ==
    IF FloorBounce(hits)
    THEN [a EXCEPT !.prev = a.last, !.last = a.cur, !.cur = y,
                   !.n = IF a.n < 2 THEN a.n + 1 ELSE a.n]
    ELSE [a EXCEPT !.cur = Max2(a.cur, y)]

noApex == [cur |-> 0, last |-> 0, prev |-> 0, n |-> 0, frame |-> FZero]

InitBall ==
    /\ io = newServer
    /\ duel = noDuel
    /\ ball \in BallStarts
    /\ upd = idleUpd
    /\ obs = [noObs EXCEPT !.before = ball]
    /\ apex = [noApex EXCEPT !.cur = ball.position.y]
    /\ player = newPlayer
    /\ pobs = noPobs
    /\ game = newGame
    /\ shot = noShot
    /\ traj = noTraj
    /\ chunk = noChunk
    /\ bot = newBot
    /\ sprint = noSprint
    /\ relay = noRelay

\* Ball.update(delta, collidables) is entered.
Enter(via, delta) ==
    /\ upd.pc \in (IF via = "frame" THEN {"idle", "done"} ELSE {"idle"})
    /\ upd' = [pc |-> IF UpdateRuns(ball) THEN "loop" ELSE "done", via |-> via,
               delta |-> delta, remainingTime |-> delta]
    /\ obs' = [noObs EXCEPT !.before = ball]
    /\ UNCHANGED <<ball, apex, player, pobs, game, shot, traj, chunk, bot, sprint, relay, duel, io>>

AnimateCall == \E raw \in ClockDeltas : Enter("animate", ClampDelta(raw))

DirectCall == \E d \in AnyDeltas : Enter("direct", d)

\* while (remainingTime > 0) { ... this.step(dt, collidables) }
SubStep ==
    /\ upd.pc = "loop"
    /\ FPositive(upd.remainingTime)
    /\ obs.steps < MaxSteps
    /\ \E s \in {SubStepOf(ball, upd.remainingTime, collidables)} :
           /\ ball' = s.ball
           /\ upd' = [upd EXCEPT !.remainingTime = s.remainingTime]
           /\ obs' = [obs EXCEPT !.steps = @ + 1,
                                 !.consumed = IF s.dt.k = "fin" THEN BAdd(@, s.dt.m) ELSE @,
                                 !.lastDt = s.dt,
                                 !.stalled = @ \/ s.remainingTime = upd.remainingTime,
                                 !.hits = s.hits]
           /\ apex' = ApexAfter(apex, s.hits, s.ball.position.y)
    /\ UNCHANGED <<player, pobs, game, shot, traj, chunk, bot, sprint, relay, duel, io>>

\* The loop ends; floor safety; return.
Finish ==
    /\ upd.pc = "loop"
    /\ ~FPositive(upd.remainingTime)
    /\ ball' = FloorSafety(ball)
    /\ upd' = [upd EXCEPT !.pc = "done"]
    /\ obs' = [obs EXCEPT !.resets = IF ball.position.y < ballFloorLimit THEN 1 ELSE 0, !.hits = <<>>]
    /\ UNCHANGED <<apex, player, pobs, game, shot, traj, chunk, bot, sprint, relay, duel, io>>

NextBall == AnimateCall \/ DirectCall \/ SubStep \/ Finish

SpecBall == InitBall /\ [][NextBall]_vars

---------------------------------------------------------------------------
(* Claims settled on SpecBall.                                             *)

\* C1: a ball that has an owner when Ball.update is called is not stepped:
\* the call runs no sub-step and leaves position and velocity as they were.
C1_HeldBallNotStepped ==
    obs.before.owner # "none" =>
        /\ obs.steps = 0
        /\ upd.pc # "loop"
        /\ ball.position = obs.before.position
        /\ ball.velocity = obs.before.velocity

\* A held ball went through a whole Ball.update with a positive delta.
C1_Witness ==
    /\ upd.pc = "done"
    /\ obs.before.owner = "player"
    /\ FPositive(upd.delta)

\* The chunks of the call so far: each greater than 0 and at most 0.01.
ChunksInRange == obs.steps > 0 => FPositive(obs.lastDt) /\ ~FGt(obs.lastDt, subStepSize)

\* No step for a delta that is not positive.
NoStepWithoutTime == ~FPositive(upd.delta) => obs.steps = 0

\* |a - b|
BDist(a, b) == IF BGt(a, b) THEN BSub(a, b) ELSE BSub(b, a)

\* C4 as written: for an unowned ball, Ball.update terminates for every
\* delta (no iteration leaves remainingTime as it was), runs steps of more
\* than 0 and at most 0.01 that sum to delta, and none for delta <= 0.
C4_AsClaimed ==
    (upd.pc # "idle" /\ obs.before.owner = "none") =>
        /\ ~obs.stalled
        /\ ChunksInRange
        /\ NoStepWithoutTime
        /\ (upd.pc = "done" /\ FPositive(upd.delta)) => obs.consumed = upd.delta.m

\* C4 amended: for an unowned ball the steps are each more than 0 and at
\* most 0.01 and there is none for a delta that is zero, negative or NaN;
\* for a delta of at most 0.1 s every iteration shortens remainingTime, so
\* the call terminates, and the steps sum to delta to within 2^-53 s, the
\* rounding of the subtractions.
C4_Amended ==
    (upd.pc # "idle" /\ obs.before.owner = "none") =>
        /\ ChunksInRange
        /\ NoStepWithoutTime
        /\ (upd.delta.k = "fin" /\ ~FGt(upd.delta, D0_1)) =>
              /\ ~obs.stalled
              /\ obs.steps < MaxSteps
              /\ (upd.pc = "done" /\ FPositive(upd.delta)) =>
                    ~BGt(BDist(obs.consumed, upd.delta.m), BPow2(9))

\* A call with delta 0.016 has run its two steps, 0.01 and then the rest.
C4_Witness ==
    /\ upd.pc = "done"
    /\ obs.before.owner = "none"
    /\ upd.delta = D0_016
    /\ obs.steps = 2
    /\ ToMs(obs.lastDt) = 6

\* C5 as written: the delta Game.animate passes on is at most 0.1 s, and
\* Ball.update runs at most 10 sub-steps in the tick.
C5_AsClaimed ==
    upd.via = "animate" => ~FGt(upd.delta, D0_1) /\ obs.steps <= 10

\* C5 amended: the delta Game.animate passes on is at most 0.1 s, and
\* Ball.update runs at most 11 sub-steps in the tick; an eleventh step is
\* the rounding residue of 0.1 - 10 * 0.01, less than a millisecond long.
C5_Amended ==
    upd.via = "animate" =>
        /\ ~FGt(upd.delta, D0_1)
        /\ obs.steps <= 11
        /\ obs.steps = 11 => ToMs(obs.lastDt) = 0

\* A frame that stalled for 0.25 s was clamped to 0.1 s and stepped through.
C5_Witness ==
    /\ upd.via = "animate"
    /\ upd.pc = "done"
    /\ upd.delta = D0_1
    /\ obs.before.owner = "none"
    /\ obs.steps >= 10

---------------------------------------------------------------------------
(* SpecBounce: an unowned ball dropped on the floor, one Ball.update per   *)
(* frame, every frame of the same length.                                  *)

DropHeights == {5000000, 1000000, 400000}

FrameDeltas == {D0_01, D0_016, D0_05}

InitBounce ==
    /\ io = newServer
    /\ duel = noDuel
    /\ \E h \in DropHeights : ball = [newBall EXCEPT !.position = Vec(0, h, 0)]
    /\ upd = idleUpd
    /\ obs = [noObs EXCEPT !.before = ball]
    /\ \E d \in FrameDeltas : apex = [noApex EXCEPT !.cur = ball.position.y, !.frame = d]
    /\ player = newPlayer
    /\ pobs = noPobs
    /\ game = newGame
    /\ shot = noShot
    /\ traj = noTraj
    /\ chunk = noChunk
    /\ bot = newBot
    /\ sprint = noSprint
    /\ relay = noRelay

\* The next frame's Ball.update.
FrameCall == Enter("frame", apex.frame)

NextBounce == FrameCall \/ SubStep \/ Finish

SpecBounce == InitBounce /\ [][NextBounce]_vars

\* The height of the ball's centre when it lies on the floor.
restHeight == floor.max.y + radius

\* C10 as written: after every floor bounce, the greatest height reached
\* since the bounce before is strictly less than the greatest height
\* reached between the two bounces before that.
C10_AsClaimed == apex.n >= 2 => apex.last < apex.prev

\* C10 amended: the greatest height between consecutive floor bounces is
\* strictly less after a bounce than before it as long as the height before
\* was at least 0.05 above the height at which the ball lies on the floor.
C10_Amended ==
    (apex.n >= 2 /\ apex.prev >= restHeight + 50000) => apex.last < apex.prev

\* The ball has bounced twice and rose well off the floor in between.
C10_Witness ==
    /\ apex.n >= 2
    /\ apex.prev >= restHeight + 50000
    /\ apex.last >= restHeight + 50000
    /\ apex.prev > apex.last

---------------------------------------------------------------------------
(* SpecPlayer: Player.update frame by frame, keys pressed and released and *)
(* the pointer lock taken and lost in between.                             *)

MaxFrames == 2

\* The number of input events (keys, mouse, pointer lock, messages) of a
\* run.
MaxEvents == 3

\* The keys pressed and released.
Keys == {"KeyW", "KeyD", "ShiftLeft", "Space"}

\* Clock deltas of a fast frame and of a stalled one.
PlayerDeltas == {D0_016, D0_25}

\* A player standing on the floor at (x, z), pointer locked.
StandingAt(x, z, look) ==
    [newPlayer EXCEPT !.position = Vec(x, floor.max.y + playerHeight, z),
                      !.onGround = TRUE, !.locked = TRUE, !.look = look]

\* The player as constructed; standing beside the right wall; standing
\* west of the far hoop's post facing it; standing under the far rim.
PlayerStarts ==
    { newPlayer,
      StandingAt(9500000, 0, "north"),
      StandingAt(-700000, -15500000, "east"),
      StandingAt(0, -14550000, "north") }

InitPlayer ==
    /\ io = newServer
    /\ duel = noDuel
    /\ player \in PlayerStarts
    /\ ball = newBall
    /\ upd = idleUpd
    /\ obs = noObs
    /\ apex = noApex
    /\ pobs = [noPobs EXCEPT !.before = player, !.accelerated = player]
    /\ game = newGame
    /\ shot = noShot
    /\ traj = noTraj
    /\ chunk = noChunk
    /\ bot = newBot
    /\ sprint = noSprint
    /\ relay = noRelay

\* One frame's Player.update(delta, collidables).
PlayerFrame ==
    /\ pobs.frames < MaxFrames
    /\ \E raw \in PlayerDeltas :
       \E r \in {PlayerUpdate(player, ball, ClampDelta(raw), collidables)} :
           /\ player' = r.player
           /\ ball' = r.ball
           /\ pobs' = IF r.ran
                      THEN [frames |-> pobs.frames + 1, ran |-> TRUE, d |-> r.d,
                            before |-> player, accelerated |-> r.accelerated,
                            x |-> r.passes.x, z |-> r.passes.z, y |-> r.passes.y]
                      ELSE [pobs EXCEPT !.frames = @ + 1, !.ran = FALSE]
           /\ traj' = PreviewOf(traj, r)
    /\ UNCHANGED <<upd, obs, apex, game, shot, chunk, bot, sprint, relay, duel, io>>

\* keydown
KeyDown ==
    /\ game.events < MaxEvents
    /\ \E code \in Keys : player' = onKey(player, code)
    /\ game' = [game EXCEPT !.events = @ + 1]
    /\ UNCHANGED <<ball, upd, obs, apex, pobs, shot, traj, chunk, bot, sprint, relay, duel, io>>

\* keyup
KeyUp ==
    /\ game.events < MaxEvents
    /\ \E code \in Keys : player' = onKeyUp(player, code)
    /\ game' = [game EXCEPT !.events = @ + 1]
    /\ UNCHANGED <<ball, upd, obs, apex, pobs, shot, traj, chunk, bot, sprint, relay, duel, io>>

\* The browser grants the pointer lock, or the user leaves it.
PointerLockChange ==
    /\ game.events < MaxEvents
    /\ player' = [player EXCEPT !.locked = ~@]
    /\ game' = [game EXCEPT !.events = @ + 1, !.reads = <<>>]
    /\ UNCHANGED <<ball, upd, obs, apex, pobs, shot, traj, chunk, bot, sprint, relay, duel, io>>

NextPlayer == PlayerFrame \/ KeyDown \/ KeyUp \/ PointerLockChange

SpecPlayer == InitPlayer /\ [][NextPlayer]_vars

---------------------------------------------------------------------------
(* Claims settled on SpecPlayer.                                           *)

rightWall == collidables[2]

\* Each pass moves and corrects its own axis only.
PassesApart ==
    /\ pobs.x.pos.y = pobs.before.position.y
    /\ pobs.x.pos.z = pobs.before.position.z
    /\ pobs.x.vel.y = pobs.accelerated.velocity.y
    /\ pobs.x.vel.z = pobs.accelerated.velocity.z
    /\ pobs.z.pos.x = pobs.x.pos.x
    /\ pobs.z.pos.y = pobs.before.position.y
    /\ pobs.z.vel.x = pobs.x.vel.x
    /\ pobs.z.vel.y = pobs.accelerated.velocity.y
    /\ pobs.y.pos.x = pobs.z.pos.x
    /\ pobs.y.pos.z = pobs.z.pos.z
    /\ pobs.y.vel.x = pobs.z.vel.x
    /\ pobs.y.vel.z = pobs.z.vel.z

\* C9: Player.update runs the x pass, then the z pass, then the y pass,
\* each moving and correcting its own axis only; a correction of the x
\* pass sets velocity.x to 0 and leaves velocity.z as it was, and when the
\* z pass then meets nothing the player ends the frame displaced along z by
\* velocity.z * delta: it slides along the wall.
C9_SlidesAlongWall ==
    pobs.ran =>
        /\ PassesApart
        /\ pobs.x.corr # <<>> => pobs.x.vel.x = 0
        /\ (pobs.x.corr # <<>> /\ pobs.z.corr = <<>>) =>
               pobs.z.pos.z = pobs.before.position.z + pobs.accelerated.velocity.z * pobs.d

\* The player ran diagonally into the right wall: the x pass put the box
\* against the wall's face and the z pass moved the player along it.
C9_Witness ==
    /\ pobs.ran
    /\ pobs.x.corr # <<>>
    /\ pobs.x.corr[1].box = rightWall
    /\ pobs.accelerated.velocity.x > 0
    /\ pobs.accelerated.velocity.z < 0
    /\ pobs.x.pos.x = rightWall.min.x - playerHalfWidth
    /\ pobs.z.corr = <<>>
    /\ pobs.y.pos.z < pobs.before.position.z
    /\ player.velocity.x = 0
    /\ player.velocity.z < 0

\* The boxes overlap by more than epsilon on every axis.
Penetrates(a, c) ==
    /\ Overlap(a, c, "x") > epsilon
    /\ Overlap(a, c, "y") > epsilon
    /\ Overlap(a, c, "z") > epsilon

\* The box is in no collider.
Clear(a) == \A i \in 1..Len(collidables) : ~Penetrates(a, collidables[i])

\* No correction of the pass left the player deeper in the collider it
\* was made for than the player was before it.
NoDeeper(corr) ==
    \A i \in 1..Len(corr) :
        Overlap(PlayerBoxAt([corr[i].from EXCEPT ![corr[i].axis] = @ + corr[i].overlap * corr[i].sign]),
                corr[i].box, corr[i].axis) <= corr[i].overlap

\* After each pass of Player.update the player's box is in no collider
\* and no correction pushed it deeper.
PlayerPassesClear ==
    pobs.ran =>
        \A a \in Axes : Clear(PlayerBoxAt(pobs[a].pos)) /\ NoDeeper(pobs[a].corr)

\* After each Ball.step the ball's box is in no collider, and the ball is
\* no deeper in any collider it hit than the box the step tested.
BallStepsClear ==
    (upd.pc = "loop" /\ obs.steps >= 1) =>
        /\ Clear(BallBoxAt(ball.position))
        /\ \A i \in 1..Len(obs.hits) :
               Overlap(BallBoxAt(ball.position), obs.hits[i].box, obs.hits[i].axis)
                   <= Overlap(ball.ballBox, obs.hits[i].box, obs.hits[i].axis)

\* C8 as written: after Player.resolveCollisions returns and after each
\* Ball.step commits, the mover's box overlaps no collider by more than
\* 1e-3, and no correction increased the mover's penetration.
C8_AsClaimed == PlayerPassesClear /\ BallStepsClear

---------------------------------------------------------------------------
(* SpecGame: the client.  Game.animate tick by tick, and between ticks the *)
(* mouse, the pointer lock, ball_updated messages of the other clients and *)
(* the reset that checkScoring scheduled.                                  *)

MaxTicks == 5

\* Clock deltas of a 20 Hz frame and of a frame after a stall of half a
\* second.
D0_5 == Fin(<<0, 0, 8192, 0, 0>>)

TickDeltas == {D0_05, D0_5}

\* The ball states other clients report while they carry the ball, and
\* the server's reset when such a client leaves.
NetBalls ==
    { [ownerId |-> "other", position |-> Vec(0, 1400000, 4000000), velocity |-> VZero],
      [ownerId |-> "none", position |-> ballSpawn, velocity |-> VZero] }

\* The game as constructed; and a player standing in front of the far
\* hoop, a shot coming down into the hoop.
GameStarts ==
    { [player |-> newPlayer, ball |-> newBall],
      [player |-> StandingAt(0, -12850000, "north"),
       ball |-> [newBall EXCEPT !.position = Vec(0, 3000000, -14550000),
                                !.velocity = Vec(0, -1000, 0)]] }

InitGame ==
    /\ io = newServer
    /\ duel = noDuel
    /\ \E g \in GameStarts : player = g.player /\ ball = g.ball
    /\ upd = idleUpd
    /\ obs = noObs
    /\ apex = noApex
    /\ pobs = noPobs
    /\ game = newGame
    /\ shot = noShot
    /\ traj = noTraj
    /\ chunk = noChunk
    /\ bot = newBot
    /\ sprint = noSprint
    /\ relay = noRelay

\* One frame: Game.animate().
Tick ==
    /\ game.ticks < MaxTicks
    /\ \E raw \in TickDeltas :
       \E r \in {animate(player, ball, game, raw)} :
           /\ player' = r.player
           /\ ball' = r.ball
           /\ game' = r.game
           /\ traj' = PreviewOf(traj, r.update)
    /\ UNCHANGED <<upd, obs, apex, pobs, shot, chunk, bot, sprint, relay, duel, io>>

\* The timer of checkScoring fires, its delay over.
ScoreTimeout ==
    /\ game.timer.pending
    /\ game.timer.elapsed >= scoreResetDelay
    /\ \E r \in {scoreTimeout(ball, game)} :
           /\ ball' = r.ball
           /\ game' = [r.game EXCEPT !.reads = <<>>]
    /\ UNCHANGED <<player, upd, obs, apex, pobs, shot, traj, chunk, bot, sprint, relay, duel, io>>

\* mousedown, left or right button.
MouseDown ==
    /\ game.events < MaxEvents
    /\ \E button \in {0, 2} :
       \E r \in {mousedown(player, ball, button)} :
           /\ player' = r.player
           /\ ball' = r.ball
           /\ game' = [game EXCEPT !.events = @ + 1,
                                    !.reads = IF player.locked /\ button = 0
                                              THEN <<ReadAt("mousedown", player, ball)>>
                                              ELSE <<>>]
    /\ UNCHANGED <<upd, obs, apex, pobs, shot, traj, chunk, bot, sprint, relay, duel, io>>

\* A ball_updated message arrives.
BallUpdated ==
    /\ game.events < MaxEvents
    /\ \E data \in NetBalls : ball' = ball_updated(player, ball, data)
    /\ game' = [game EXCEPT !.events = @ + 1, !.reads = <<ReadAt("ball_updated", player, ball)>>]
    /\ UNCHANGED <<player, upd, obs, apex, pobs, shot, traj, chunk, bot, sprint, relay, duel, io>>

NextGame == Tick \/ ScoreTimeout \/ MouseDown \/ BallUpdated \/ PointerLockChange

SpecGame == InitGame /\ [][NextGame]_vars

---------------------------------------------------------------------------
(* Claims settled on SpecGame.                                             *)

\* C2 as written: a Player.update called with hasBall set while the ball's
\* owner is not the player clears hasBall in that call and does not move
\* the ball, whether or not the pointer lock is held.
C2_AsClaimed ==
    (game.call.made /\ game.call.stale) => (game.call.cleared /\ ~game.call.ballMoved)

\* C3 as written: every read of player.hasBall sees it true exactly when
\* ball.owner is the player.
C3_AsClaimed ==
    \A i \in 1..Len(game.reads) :
        game.reads[i].hasBall <=> game.reads[i].owner = "player"

---------------------------------------------------------------------------
(* SpecSolve: Bot.calculateShotVelocity on a start, a target and an angle, *)
(* and the ball released with the velocity it returns, advanced by the     *)
(* gravity update of Ball.step in sub-steps of 0.01 s.                     *)

MaxFlight == 320

\* The bot's first position, positions from 14 to 1 in front of the near
\* hoop and beside it, under the rim centre, above it; the origin.
ShotStarts ==
    { Vec(0, 1000, -10000), Vec(0, 1000, 600), Vec(3000, 1000, 8550), Vec(0, 1000, 8550),
      Vec(0, 1000, 12550), Vec(0, 1000, 13550), Vec(0, 1000, 14550), Vec(0, 3000, 14550),
      VZero }

\* The centre of the near rim, and a point high above the court.
ShotTargets == { Vec(0, 2800, 14550), Vec(0, 50000, 1000) }

ShotAngles == DOMAIN Trig

InitSolve ==
    /\ io = newServer
    /\ duel = noDuel
    /\ \E st \in ShotStarts, tg \in ShotTargets, a \in ShotAngles :
           shot = [noShot EXCEPT !.start = st, !.target = tg, !.angle = a]
    /\ ball = newBall
    /\ upd = idleUpd
    /\ obs = noObs
    /\ apex = noApex
    /\ player = newPlayer
    /\ pobs = noPobs
    /\ game = newGame
    /\ traj = noTraj
    /\ chunk = noChunk
    /\ bot = newBot
    /\ sprint = noSprint
    /\ relay = noRelay

\* The square of the distance from the target t to the segment from q to
\* p, all three in 1e-6 units; the result in 1e-3 units squared, and
\* 10^9 for a target further than 2 away on an axis.
SegDist2(q, p, t) ==
    LET sx == RDiv(p.x - q.x, 1000)
        sy == RDiv(p.y - q.y, 1000)
        sz == RDiv(p.z - q.z, 1000)
        wx == RDiv(t.x - q.x, 1000)
        wy == RDiv(t.y - q.y, 1000)
        wz == RDiv(t.z - q.z, 1000)
        L  == sx * sx + sy * sy + sz * sz
        dt == sx * wx + sy * wy + sz * wz
        \* the nearest point of the segment, relative to q
        cx == IF L = 0 \/ dt <= 0 THEN 0 ELSE IF dt >= L THEN sx ELSE RDiv(sx * dt, L)
        cy == IF L = 0 \/ dt <= 0 THEN 0 ELSE IF dt >= L THEN sy ELSE RDiv(sy * dt, L)
        cz == IF L = 0 \/ dt <= 0 THEN 0 ELSE IF dt >= L THEN sz ELSE RDiv(sz * dt, L)
    IN  IF Abs(wx) > 2000 \/ Abs(wy) > 2000 \/ Abs(wz) > 2000 THEN 10 ^ 9
        ELSE (wx - cx) * (wx - cx) + (wy - cy) * (wy - cy) + (wz - cz) * (wz - cz)

Micro(v) == Vec(1000 * v.x, 1000 * v.y, 1000 * v.z)

\* The solver is called; a velocity it returns is given to a ball at the
\* start.
Solve ==
    /\ ~shot.solved
    /\ \E r \in {calculateShotVelocity(shot.start, shot.target, shot.angle)} :
           shot' = [shot EXCEPT
                       !.solved = TRUE,
                       !.result = r,
                       !.ball = IF r.null \/ r.x.nan \/ r.y.nan \/ r.z.nan THEN @
                                ELSE [@ EXCEPT !.position = Micro(shot.start),
                                               !.velocity = Vec(r.x.v, r.y.v, r.z.v)],
                       !.best = 10 ^ 9]
    /\ UNCHANGED <<ball, upd, obs, apex, player, pobs, game, traj, chunk, bot, sprint, relay, duel, io>>

\* The shot flies: it has a velocity of numbers.
Flying ==
    /\ shot.solved
    /\ ~shot.result.null
    /\ ~(shot.result.x.nan \/ shot.result.y.nan \/ shot.result.z.nan)

\* The ball is on its way down and half a unit below the target.
Passed ==
    /\ shot.ball.velocity.y < 0
    /\ shot.ball.position.y < 1000 * shot.target.y - 500000

\* One sub-step of the flight.
Fly ==
    /\ Flying
    /\ ~Passed
    /\ shot.steps < MaxFlight
    /\ \E b \in {GravityStep(shot.ball, ToMs(subStepSize))} :
           shot' = [shot EXCEPT
                       !.ball = b,
                       !.steps = @ + 1,
                       !.best = Min2(@, SegDist2(shot.ball.position, b.position,
                                                 Micro(shot.target)))]
    /\ UNCHANGED <<ball, upd, obs, apex, player, pobs, game, traj, chunk, bot, sprint, relay, duel, io>>

NextSolve == Solve \/ Fly

SpecSolve == InitSolve /\ [][NextSolve]_vars

---------------------------------------------------------------------------
(* Claims settled on SpecSolve.                                            *)

\* C6: Bot.calculateShotVelocity returns null exactly when
\* x * tan(angle) - y <= 0, x the horizontal distance and y the height of
\* the target above the start, and otherwise a velocity of three finite
\* numbers, also when x is 0.
C6_NullOrFinite ==
    shot.solved =>
        /\ shot.result.null <=> TermThree(shot.start, shot.target, shot.angle) <= 0
        /\ ~shot.result.null =>
               ~(shot.result.x.nan \/ shot.result.y.nan \/ shot.result.z.nan)

\* A start straight above the target: x is 0, a velocity is returned.
C6_Witness ==
    /\ shot.solved
    /\ HorizontalDistance(shot.start, shot.target) = 0
    /\ shot.target.y < shot.start.y
    /\ ~shot.result.null
    /\ ~shot.result.y.nan

\* C7 as written: a ball released with a velocity the solver returned and
\* advanced by the gravity update passes within 0.05 of the target.
C7_AsClaimed == (Flying /\ Passed) => shot.best <= 50 * 50

---------------------------------------------------------------------------
(* SpecChunk: the same ball advanced over 0.05 s by one Ball.update(0.05)  *)
(* and by five Ball.update(0.01), interval after interval.                 *)

MaxRounds == 3

\* Unowned balls: as constructed, at rest on the floor, falling on the
\* floor, flying into the right wall, at the far rim, over the wall and
\* falling beside the court, coming down on the corner of the far rim.
ChunkStarts == {b \in BallStarts : b.owner = "none"}

InitChunk ==
    /\ io = newServer
    /\ duel = noDuel
    /\ \E b \in ChunkStarts : chunk = [noChunk EXCEPT !.start = b, !.one = b, !.five = b]
    /\ ball = newBall
    /\ upd = idleUpd
    /\ obs = noObs
    /\ apex = noApex
    /\ player = newPlayer
    /\ pobs = noPobs
    /\ game = newGame
    /\ shot = noShot
    /\ traj = noTraj
    /\ bot = newBot
    /\ sprint = noSprint
    /\ relay = noRelay

\* ball.update(0.05, collidables)
OneCall ==
    /\ ~chunk.oneDone
    /\ chunk' = [chunk EXCEPT !.one = BallUpdate(chunk.start, D0_05, collidables),
                              !.oneDone = TRUE]
    /\ UNCHANGED <<ball, upd, obs, apex, player, pobs, game, shot, traj, bot, sprint, relay, duel, io>>

\* ball.update(0.01, collidables), one of five.
SmallCall ==
    /\ chunk.calls < 5
    /\ chunk' = [chunk EXCEPT !.five = BallUpdate(chunk.five, D0_01, collidables),
                              !.calls = @ + 1]
    /\ UNCHANGED <<ball, upd, obs, apex, player, pobs, game, shot, traj, bot, sprint, relay, duel, io>>

\* The next interval starts where the five calls ended.
NextInterval ==
    /\ chunk.oneDone
    /\ chunk.calls = 5
    /\ chunk.rounds < MaxRounds
    /\ chunk' = [start |-> chunk.five, one |-> chunk.five, five |-> chunk.five,
                 oneDone |-> FALSE, calls |-> 0, rounds |-> chunk.rounds + 1]
    /\ UNCHANGED <<ball, upd, obs, apex, player, pobs, game, shot, traj, bot, sprint, relay, duel, io>>

NextChunk == OneCall \/ SmallCall \/ NextInterval

SpecChunk == InitChunk /\ [][NextChunk]_vars

\* C11 as written: one Ball.update(0.05) and five Ball.update(0.01) from
\* the same unowned ball end with the same position, velocity and owner.
C11_AsClaimed ==
    (chunk.oneDone /\ chunk.calls = 5) =>
        /\ chunk.one.position = chunk.five.position
        /\ chunk.one.velocity = chunk.five.velocity
        /\ chunk.one.owner = chunk.five.owner

---------------------------------------------------------------------------
(* SpecSprint: the stamina of the player and of the bot.  Player.update    *)
(* and Bot.update frame by frame, the sprint key and a direction key       *)
(* pressed and released in between.                                        *)

MaxSprintFrames == 3

MaxBotFrames == 2

MaxSprintKeys == 1

SprintKeys == {"ShiftLeft", "KeyW"}

SprintDeltas == {D0_016, D0_1}

\* 6 + Math.random() * 8: a short and a long shooting distance.
ShootDistances == {6000, 13000}

\* The ball carried by the bot.
BotBall(bt) ==
    [newBall EXCEPT !.owner = "bot",
                    !.position = Vec(bt.position.x, bt.position.y + 1500000,
                                     bt.position.z + 500000)]

\* The ball carried by the player.
PlayerBall(p) == [newBall EXCEPT !.owner = "player", !.position = HoldPos(p)]

\* The game as started; a player who has sprinted for 19 s, the bot
\* running to the hoop with the ball just as long; a player standing with
\* the sprint key held and half the stamina, the bot with the ball in
\* shooting range; a player with the ball and nearly full stamina, the bot
\* one away from it.
SprintStarts ==
    { [player |-> StandingAt(0, 5000000, "north"), bot |-> newBot, ball |-> newBall],
      [player |-> [StandingAt(0, 0, "north") EXCEPT !.stamina = 3000, !.isRunning = TRUE,
                                                    !.moveForward = TRUE],
       bot |-> [newBot EXCEPT !.hasBall = TRUE, !.stamina = 2000, !.shootDistance = 6000],
       ball |-> BotBall(newBot)],
      [player |-> [StandingAt(0, 0, "north") EXCEPT !.stamina = 30000, !.isRunning = TRUE],
       bot |-> [newBot EXCEPT !.hasBall = TRUE, !.position = Vec(0, 1000000, 8000000)],
       ball |-> BotBall([newBot EXCEPT !.position = Vec(0, 1000000, 8000000)])],
      [player |-> [StandingAt(0, 0, "north") EXCEPT !.stamina = 59000, !.hasBall = TRUE],
       bot |-> [newBot EXCEPT !.position = Vec(0, 1000000, -1000000), !.stealTimer = 900],
       ball |-> PlayerBall(StandingAt(0, 0, "north"))] }

InitSprint ==
    /\ io = newServer
    /\ duel = noDuel
    /\ \E st \in SprintStarts :
           /\ player = st.player
           /\ bot = st.bot
           /\ ball = st.ball
           /\ sprint = [noSprint EXCEPT !.before = st.player, !.botBefore = st.bot]
    /\ upd = idleUpd
    /\ obs = noObs
    /\ apex = noApex
    /\ pobs = noPobs
    /\ game = newGame
    /\ shot = noShot
    /\ traj = noTraj
    /\ chunk = noChunk
    /\ relay = noRelay

\* One frame's Player.update.  exhausted: the stamina has reached 0 with
\* the sprint key held and the key has not been released since.
SprintFrame ==
    /\ sprint.frames < MaxSprintFrames
    /\ \E raw \in SprintDeltas :
       \E r \in {PlayerUpdate(player, ball, ClampDelta(raw), collidables)} :
           /\ player' = r.player
           /\ ball' = r.ball
           /\ traj' = PreviewOf(traj, r)
           /\ sprint' = [sprint EXCEPT
                            !.frames = @ + 1,
                            !.ran = r.ran,
                            !.d = ToMs(ClampDelta(raw)),
                            !.before = player,
                            !.wasExhausted = sprint.exhausted,
                            !.exhausted = @ \/ (r.ran /\ r.player.stamina = 0
                                                      /\ r.player.isRunning)]
    /\ UNCHANGED <<upd, obs, apex, pobs, game, shot, chunk, bot, relay, duel, io>>

\* keydown of the sprint key or of a direction key.
SprintKeyDown ==
    /\ game.events < MaxSprintKeys
    /\ \E code \in SprintKeys : player' = onKey(player, code)
    /\ game' = [game EXCEPT !.events = @ + 1]
    /\ UNCHANGED <<ball, upd, obs, apex, pobs, shot, traj, chunk, bot, sprint, relay, duel, io>>

\* keyup of the sprint key or of a direction key.
SprintKeyUp ==
    /\ game.events < MaxSprintKeys
    /\ \E code \in SprintKeys :
           /\ player' = onKeyUp(player, code)
           /\ sprint' = IF code = "ShiftLeft" THEN [sprint EXCEPT !.exhausted = FALSE]
                                              ELSE sprint
    /\ game' = [game EXCEPT !.events = @ + 1]
    /\ UNCHANGED <<ball, upd, obs, apex, pobs, shot, traj, chunk, bot, relay, duel, io>>

\* One frame's Bot.update, of a tenth of a second.
BotFrame ==
    /\ sprint.botFrames < MaxBotFrames
    /\ \E rnd \in ShootDistances :
       \E r \in {BotUpdate(bot, ball, player, ToMs(D0_1), rnd)} :
           /\ bot' = r.bot
           /\ ball' = r.ball
           /\ player' = r.player
           /\ sprint' = [sprint EXCEPT !.botFrames = @ + 1, !.botBefore = bot]
    /\ UNCHANGED <<upd, obs, apex, pobs, game, shot, traj, chunk, relay, duel, io>>

NextSprint == SprintFrame \/ SprintKeyDown \/ SprintKeyUp \/ BotFrame

SpecSprint == InitSprint /\ [][NextSprint]_vars

\* C12: the stamina of the player stays within 0 and maxStamina over all
\* Player.update calls, and the stamina of the bot within 0 and its
\* maximum over all Bot.update calls.
C12_StaminaBounded ==
    /\ player.stamina >= 0
    /\ player.stamina <= maxStamina
    /\ bot.stamina >= 0
    /\ bot.stamina <= botMaxStamina

\* The player sprinted with less stamina left than the frame drains and
\* the bot did the same: both were stopped at 0.
C12_Witness ==
    /\ sprint.ran
    /\ sprint.before.isRunning
    /\ Moving(sprint.before)
    /\ sprint.before.stamina > 0
    /\ sprint.before.stamina < staminaDrainRate * sprint.d
    /\ player.stamina = 0
    /\ bot.sprinted
    /\ sprint.botBefore.stamina > 0
    /\ sprint.botBefore.stamina < botDrainRate * ToMs(D0_1)
    /\ bot.stamina = 0

\* C13 as written: in a Player.update with the pointer lock held the
\* stamina decreases only if the sprint key is held and a direction key is
\* down, and in every other case it grows by 15 per second up to the
\* maximum.
C13_AsClaimed ==
    sprint.ran =>
        /\ player.stamina < sprint.before.stamina =>
               (sprint.before.isRunning /\ Moving(sprint.before))
        /\ ~(sprint.before.isRunning /\ Moving(sprint.before)) =>
               player.stamina = Min2(sprint.before.stamina + staminaRegenRate * sprint.d,
                                     maxStamina)

\* C14 as written: once the stamina has reached 0 with the sprint key
\* held, no Player.update applies the sprint multiplier for as long as the
\* key stays held.
C14_AsClaimed == (sprint.ran /\ sprint.wasExhausted) => ~player.usingSprint

---------------------------------------------------------------------------
(* SpecPreview: the trajectory preview.  A player who carries the ball,    *)
(* Player.update frame by frame with the preview toggled, the power        *)
(* changed and the player walking in between.                              *)

MaxPreviewFrames == 2

MaxPreviewKeys == 2

PreviewKeys == {"KeyL", "Equal", "Minus", "KeyW"}

\* A player carrying the ball: at the free-throw line of the far hoop
\* looking up at it, at the centre looking north, beside the right wall
\* looking east, and under the far backboard looking up.
PreviewStarts ==
    { [StandingAt(x, z, look) EXCEPT !.hasBall = TRUE, !.currentPower = pw] :
          <<x, z, look, pw>> \in { <<0, -9000000, "up45", 10>>,
                                    <<0, 0, "north", 20>>,
                                    <<9000000, 0, "east", 20>>,
                                    <<0, -13500000, "up45", 20>> } }

InitPreview ==
    /\ io = newServer
    /\ duel = noDuel
    /\ player \in PreviewStarts
    /\ ball = PlayerBall(player)
    /\ traj = noTraj
    /\ upd = idleUpd
    /\ obs = noObs
    /\ apex = noApex
    /\ pobs = noPobs
    /\ game = newGame
    /\ shot = noShot
    /\ chunk = noChunk
    /\ bot = newBot
    /\ sprint = noSprint
    /\ relay = noRelay

\* One frame's Player.update.
PreviewFrame ==
    /\ pobs.frames < MaxPreviewFrames
    /\ \E raw \in {D0_016, D0_1} :
       \E r \in {PlayerUpdate(player, ball, ClampDelta(raw), collidables)} :
           /\ player' = r.player
           /\ ball' = r.ball
           /\ traj' = PreviewOf(traj, r)
           /\ pobs' = [pobs EXCEPT !.frames = @ + 1, !.ran = r.ran, !.before = player]
    /\ UNCHANGED <<upd, obs, apex, game, shot, chunk, bot, sprint, relay, duel, io>>

\* keydown of the preview toggle, a power key or a direction key; the
\* preview's last call is then no longer the step just taken.
PreviewKey ==
    /\ game.events < MaxPreviewKeys
    /\ \E code \in PreviewKeys : player' = onKey(player, code)
    /\ game' = [game EXCEPT !.events = @ + 1]
    /\ traj' = [traj EXCEPT !.called = FALSE]
    /\ UNCHANGED <<ball, upd, obs, apex, pobs, shot, chunk, bot, sprint, relay, duel, io>>

NextPreview == PreviewFrame \/ PreviewKey

SpecPreview == InitPreview /\ [][NextPreview]_vars

\* C15: Trajectory.update leaves the origin and velocity vectors handed to
\* it, the player's position and velocity, the ball's position, velocity
\* and owner and the colliders as they were at the call.
C15_PreviewFrame ==
    traj.called =>
        /\ traj.left.origin = traj.args.origin
        /\ traj.left.velocity = traj.args.velocity
        /\ traj.left.colliders = traj.args.colliders
        /\ traj.left.colliders = collidables
        /\ player.position = traj.seen.player.position
        /\ player.velocity = traj.seen.player.velocity
        /\ ball.position = traj.seen.ball.position
        /\ ball.velocity = traj.seen.ball.velocity
        /\ ball.owner = traj.seen.ball.owner

\* Trajectory.update ran for a moving player and its simulation stopped at
\* a collider: some dot is where the ray hit, the dots after it hidden,
\* and the first dot is away from the origin it was handed.
C15_Witness ==
    /\ traj.called
    /\ traj.visible
    /\ Len(traj.samples) = pointCount
    /\ traj.samples[1].position # traj.args.origin
    /\ traj.samples[pointCount] = hiddenDot
    /\ player.velocity # VZero

---------------------------------------------------------------------------
(* SpecRelay: the updates another client sends through the server, and     *)
(* this client's handlers and frames.                                      *)

MaxSent == 3

MaxRelayTicks == 2

\* The player_update payloads of another client: position and quaternion,
\* or only one of them.
PlayerUpdates ==
    { [position |-> Vec(1000000, 1600000, 2000000), quaternion |-> Quat(0, 707, 0, 707)],
      [position |-> Vec(3000000, 1600000, -4000000), quaternion |-> Quat(0, 1000, 0, 0)],
      [position |-> Vec(5000000, 1600000, 6000000)],
      [quaternion |-> Quat(0, -707, 0, 707)] }

\* The ball_update payloads of another client: all three fields, or the
\* owner only.
BallUpdates ==
    { [ownerId |-> "other", position |-> Vec(0, 1400000, 4000000), velocity |-> VZero],
      [ownerId |-> "none", position |-> Vec(0, 2000000, 3000000),
       velocity |-> Vec(0, 5000, -10000)],
      [ownerId |-> "other"] }

InitRelay ==
    /\ io = newServer
    /\ duel = noDuel
    /\ relay = noRelay
    /\ player = newPlayer
    /\ ball = newBall
    /\ upd = idleUpd
    /\ obs = noObs
    /\ apex = noApex
    /\ pobs = noPobs
    /\ game = newGame
    /\ shot = noShot
    /\ traj = noTraj
    /\ chunk = noChunk
    /\ bot = newBot
    /\ sprint = noSprint

\* The other client emits player_update; the server merges and relays it.
ServerPlayerUpdate ==
    /\ relay.sent < MaxSent
    /\ \E data \in PlayerUpdates :
       \E r \in {player_update(relay.server, data)} :
           relay' = [relay EXCEPT !.server = r.server, !.msgs = Append(@, r.msg),
                                  !.sent = @ + 1]
    /\ UNCHANGED <<ball, upd, obs, apex, player, pobs, game, shot, traj, chunk, bot, sprint, duel, io>>

\* The other client emits ball_update; the server merges and relays it.
ServerBallUpdate ==
    /\ relay.sent < MaxSent
    /\ \E data \in BallUpdates :
       \E r \in {ball_update(relay.server, data)} :
           relay' = [relay EXCEPT !.server = r.server, !.msgs = Append(@, r.msg),
                                  !.sent = @ + 1]
    /\ UNCHANGED <<ball, upd, obs, apex, player, pobs, game, shot, traj, chunk, bot, sprint, duel, io>>

\* This client's player_moved handler runs for the oldest message.
PlayerMoved ==
    /\ relay.msgs # <<>>
    /\ Head(relay.msgs).type = "player_moved"
    /\ relay' = [relay EXCEPT !.msgs = Tail(@),
                              !.remote = updateData(@, Head(relay.msgs).data),
                              !.got = Append(@, Head(relay.msgs).data)]
    /\ UNCHANGED <<ball, upd, obs, apex, player, pobs, game, shot, traj, chunk, bot, sprint, duel, io>>

\* A player_moved message, emitted volatile, is dropped on the way.
DropMoved ==
    /\ relay.msgs # <<>>
    /\ Head(relay.msgs).type = "player_moved"
    /\ relay' = [relay EXCEPT !.msgs = Tail(@)]
    /\ UNCHANGED <<ball, upd, obs, apex, player, pobs, game, shot, traj, chunk, bot, sprint, duel, io>>

\* This client's ball_updated handler runs for the oldest message.
RelayBallUpdated ==
    /\ relay.msgs # <<>>
    /\ Head(relay.msgs).type = "ball_updated"
    /\ ball' = ball_updated(player, ball, Head(relay.msgs).data)
    /\ relay' = [relay EXCEPT !.msgs = Tail(@), !.ballGot = Append(@, Head(relay.msgs).data)]
    /\ UNCHANGED <<upd, obs, apex, player, pobs, game, shot, traj, chunk, bot, sprint, duel, io>>

\* This client's frame as far as the remote player goes: its update with
\* a delta of 0 or of 0.1 (the clamp of Game.animate).
RelayTick ==
    /\ relay.ticks < MaxRelayTicks
    /\ \E raw \in {FZero, D0_1, D0_25} :
           relay' = [relay EXCEPT !.remote = RemoteUpdate(@, ToMs(ClampDelta(raw))),
                                  !.got = <<>>, !.ballGot = <<>>,
                                  !.atTick = [targetPosition |-> relay.remote.targetPosition,
                                              targetQuaternion |-> relay.remote.targetQuaternion],
                                  !.ticks = @ + 1]
    /\ UNCHANGED <<ball, upd, obs, apex, player, pobs, game, shot, traj, chunk, bot, sprint, duel, io>>

NextRelay ==
    \/ ServerPlayerUpdate
    \/ ServerBallUpdate
    \/ PlayerMoved
    \/ DropMoved
    \/ RelayBallUpdated
    \/ RelayTick

SpecRelay == InitRelay /\ [][NextRelay]_vars

\* C16 as written: of the player_moved updates received since the last
\* frame only the last one counts for the remote player's targets (a field
\* it does not carry is as it was at that frame, whatever earlier updates
\* carried), and the ball is as the last ball_updated received says.
C16_AsClaimed ==
    /\ relay.got # <<>> =>
           LET last == relay.got[Len(relay.got)]
           IN  /\ relay.remote.targetPosition =
                      IF "position" \in DOMAIN last THEN last.position
                      ELSE relay.atTick.targetPosition
               /\ relay.remote.targetQuaternion =
                      IF "quaternion" \in DOMAIN last THEN last.quaternion
                      ELSE relay.atTick.targetQuaternion
    /\ relay.ballGot # <<>> =>
           LET last == relay.ballGot[Len(relay.ballGot)]
           IN  /\ ball.position = last.position
               /\ ball.velocity = last.velocity
               /\ ball.owner = IF last.ownerId = "me" THEN "player" ELSE "none"

---------------------------------------------------------------------------
(* SpecFall: the floor safety of the player and of the ball.  Whole calls  *)
(* of Player.update and of Ball.update, for a player and a ball on the     *)
(* court and for ones that are beyond the walls, where nothing holds them. *)

MaxFallFrames == 3

MaxFallCalls == 3

\* The camera as Game.init places it, and one placed beyond the right
\* wall just above the player's fall limit; the pointer lock held.
FallPlayers ==
    { [newPlayer EXCEPT !.locked = TRUE],
      [newPlayer EXCEPT !.locked = TRUE, !.position = Vec(12000000, -19900000, 0)] }

\* The ball as constructed, and a shot that went over the right wall and
\* has fallen almost to the ball's fall limit.
FallBalls ==
    { newBall,
      [newBall EXCEPT !.position = Vec(12000000, -9950000, 0), !.velocity = Vec(0, -8000, 0)] }

InitFall ==
    /\ io = newServer
    /\ duel = noDuel
    /\ player \in FallPlayers
    /\ ball \in FallBalls
    /\ upd = idleUpd
    /\ obs = noObs
    /\ apex = noApex
    /\ pobs = noPobs
    /\ game = newGame
    /\ shot = noShot
    /\ traj = noTraj
    /\ chunk = noChunk
    /\ bot = newBot
    /\ sprint = noSprint
    /\ relay = noRelay

\* Player.update, one call; pobs.y is the player as the y pass leaves it,
\* before the floor safety.
FallFrame ==
    /\ pobs.frames < MaxFallFrames
    /\ \E raw \in {D0_016, D0_1} :
       \E r \in {PlayerUpdate(player, ball, ClampDelta(raw), collidables)} :
           /\ player' = r.player
           /\ ball' = r.ball
           /\ traj' = PreviewOf(traj, r)
           /\ pobs' = [frames |-> pobs.frames + 1, ran |-> TRUE, d |-> r.d,
                       before |-> player, accelerated |-> r.accelerated,
                       x |-> r.passes.x, z |-> r.passes.z, y |-> r.passes.y]
    /\ upd' = idleUpd
    /\ UNCHANGED <<obs, apex, game, shot, chunk, bot, sprint, relay, duel, io>>

\* Ball.update, one call for an unowned ball; obs.before is the ball as
\* the loop leaves it, before the floor safety; upd.pc is "done" while
\* this call is the step just taken.
FallBall ==
    /\ obs.steps < MaxFallCalls
    /\ UpdateRuns(ball)
    /\ \E delta \in {D0_016, D0_05, D0_1} :
       \E pre \in {RunLoop(ball, delta, collidables)} :
           /\ ball' = FloorSafety(pre)
           /\ obs' = [obs EXCEPT !.steps = @ + 1, !.before = pre,
                                 !.resets = IF pre.position.y < ballFloorLimit THEN 1 ELSE 0]
           /\ upd' = [pc |-> "done", via |-> "direct", delta |-> delta,
                      remainingTime |-> FZero]
    /\ pobs' = [pobs EXCEPT !.ran = FALSE]
    /\ UNCHANGED <<apex, player, game, shot, traj, chunk, bot, sprint, relay, duel, io>>

NextFall == FallFrame \/ FallBall

SpecFall == InitFall /\ [][NextFall]_vars

\* C17: after a Player.update with the pointer lock held the player's y is
\* at least -20, a player the move left below -20 being at (0, 5, 5) with
\* velocity zero; after a Ball.update of an unowned ball the ball's y is at
\* least -10, a ball the loop left below -10 being at (0, 5, 0) with
\* velocity zero and no owner.
C17_FloorSafety ==
    /\ pobs.ran =>
           /\ player.position.y >= playerFloorLimit
           /\ pobs.y.pos.y < playerFloorLimit =>
                  (player.position = Vec(0, 5000000, 5000000) /\ player.velocity = VZero)
    /\ upd.pc = "done" =>
           /\ ball.position.y >= ballFloorLimit
           /\ obs.before.position.y < ballFloorLimit =>
                  /\ ball.position = Vec(0, 5000000, 0)
                  /\ ball.velocity = VZero
                  /\ ball.owner = "none"

\* The player has been found below -20, moving, and teleported.
C17_Witness ==
    /\ pobs.ran
    /\ pobs.y.pos.y < playerFloorLimit
    /\ pobs.y.vel # VZero
    /\ player.position.y = 5000000
    /\ obs.resets = 1

---------------------------------------------------------------------------
(* Claims about the ball's bounce resolver, settled on SpecBall.           *)

\* C18 as written: in Ball.step a collider whose overlap with the ball's
\* box is below 1e-3 on some axis is skipped, changing neither the ball's
\* position nor its velocity (as Player.resolveCollisions does).
C18_AsClaimed ==
    \A i \in 1..Len(obs.hits) :
        (\E a \in Axes : obs.hits[i].overlap[a] < epsilon) =>
            (obs.hits[i].to = obs.hits[i].from /\ ~obs.hits[i].reflected)

\* C19 as written: in Ball.step a collider that the ball's box, recomputed
\* from the position the earlier corrections of the pass have left, no
\* longer overlaps causes no further correction.
C19_AsClaimed ==
    \A i \in 1..Len(obs.hits) :
        (\E a \in Axes : Overlap(BallBoxAt(obs.hits[i].from), obs.hits[i].box, a) <= 0) =>
            obs.hits[i].to = obs.hits[i].from

---------------------------------------------------------------------------
(* SpecJump: the player jumping while running at the near backboard.       *)

MaxJumpFrames == 8

MaxJumpKeys == 1

\* clock.getDelta() clamped: 0 for two frames within the clock's
\* resolution, and the clamp's 0.1.
JumpDeltas == {FZero, D0_1}

\* A player standing in front of the near hoop, facing it, walking; a
\* player a metre from the right wall, facing it, sprinting.
JumpStarts ==
    { [StandingAt(0, z, "south") EXCEPT !.moveForward = TRUE] :
          z \in {12000000, 13000000, 14000000} }
    \cup { [StandingAt(9000000, 0, "east") EXCEPT !.moveForward = TRUE,
                                                 !.isRunning = TRUE] }

InitJump ==
    /\ io = newServer
    /\ duel = noDuel
    /\ player \in JumpStarts
    /\ ball = newBall
    /\ upd = idleUpd
    /\ obs = noObs
    /\ apex = noApex
    /\ pobs = noPobs
    /\ game = newGame
    /\ shot = noShot
    /\ traj = noTraj
    /\ chunk = noChunk
    /\ bot = newBot
    /\ sprint = noSprint
    /\ relay = noRelay

\* One frame's Player.update; pobs records its three passes.
JumpFrame ==
    /\ pobs.frames < MaxJumpFrames
    /\ \E raw \in JumpDeltas :
       \E r \in {PlayerUpdate(player, ball, ClampDelta(raw), collidables)} :
           /\ player' = r.player
           /\ ball' = r.ball
           /\ traj' = PreviewOf(traj, r)
           /\ pobs' = [frames |-> pobs.frames + 1, ran |-> TRUE, d |-> r.d,
                       before |-> player, accelerated |-> r.accelerated,
                       x |-> r.passes.x, z |-> r.passes.z, y |-> r.passes.y]
    /\ UNCHANGED <<upd, obs, apex, game, shot, chunk, bot, sprint, relay, duel, io>>

\* keydown of the jump key.
JumpKey ==
    /\ game.events < MaxJumpKeys
    /\ player' = onKey(player, "Space")
    /\ game' = [game EXCEPT !.events = @ + 1]
    /\ UNCHANGED <<ball, upd, obs, apex, pobs, shot, traj, chunk, bot, sprint, relay, duel, io>>

NextJump == JumpFrame \/ JumpKey

SpecJump == InitJump /\ [][NextJump]_vars

\* C20 as written: on each of the axes x, z and y the push of a correction
\* of Player.resolveCollisions is opposite to the player's velocity on the
\* axis when that is not zero, and otherwise has the sign of the player's
\* position minus the collider's centre on the axis.
C20_AsClaimed ==
    pobs.ran =>
        \A pass \in Axes :
            \A i \in 1..Len(pobs[pass].corr) :
                LET c == pobs[pass].corr[i]
                IN  c.sign = IF c.vel # 0 THEN -Sign(c.vel)
                             ELSE Sign(2 * c.from[c.axis] - Center2(c.box, c.axis))

\* C21: a Player.update with the pointer lock held leaves onGround false
\* through the x and z passes, and onGround is true at its end only if the
\* y pass made a correction while velocity.y was not upward; the Space key
\* changes velocity.y only when onGround is true, and then to jumpForce.
C21_Grounded ==
    /\ [](pobs.ran =>
            /\ ~pobs.x.onGround
            /\ ~pobs.z.onGround
            /\ player.onGround =>
                   \E i \in 1..Len(pobs.y.corr) : pobs.y.corr[i].vel <= 0)
    /\ [][game'.events # game.events =>
              /\ player' = IF player.onGround
                           THEN [player EXCEPT !.velocity.y = jumpForce]
                           ELSE player]_vars

\* A player in the air after a jump is grounded again by the frame's y pass.
C21_Witness ==
    /\ pobs.ran
    /\ game.events = 1
    /\ ~pobs.before.onGround
    /\ pobs.before.position.y > floor.max.y + playerHeight
    /\ player.onGround
    /\ Len(pobs.y.corr) > 0

---------------------------------------------------------------------------
(* The response of Ball.step to a collider, hit by hit.                    *)

\* The hit h has the axis of least overlap and pushed the ball along it,
\* away from the collider's centre, by the overlap on it.
LeastAxisPush(h) ==
    /\ \A a \in Axes : h.overlap[h.axis] <= h.overlap[a]
    /\ h.sign = Sign(2 * h.from[h.axis] - Center2(h.box, h.axis))
    /\ h.to = [h.from EXCEPT ![h.axis] = @ + h.overlap[h.axis] * h.sign]

\* The hit h reversed the velocity on its axis and scaled every component
\* by the restitution; the friction took something more off x and z only
\* if the axis is y.
ReflectedScaled(h) ==
    /\ h.velTo[h.axis] = RDiv(-h.velFrom[h.axis] * restitutionNum, restitutionDen)
    /\ \A a \in Axes \ {h.axis} :
           \/ h.velTo[a] = RDiv(h.velFrom[a] * restitutionNum, restitutionDen)
           \/ /\ h.axis = "y"
              /\ Abs(h.velTo[a]) <= Abs(RDiv(h.velFrom[a] * restitutionNum, restitutionDen))
              /\ h.velTo[a] * h.velFrom[a] >= 0

\* C22 as written: every collider the ball's box intersects pushes the
\* ball out along the axis of least overlap and has the velocity reflected
\* about that axis and scaled by the restitution.
C22_AsClaimed ==
    \A i \in 1..Len(obs.hits) :
        LeastAxisPush(obs.hits[i]) /\ ReflectedScaled(obs.hits[i])

\* C22 amended: the push along the axis of least overlap is made for every
\* collider the box intersects; the velocity is reflected and scaled only
\* when it points into the collider along that axis, and is left as it is
\* otherwise.
C22_Amended ==
    \A i \in 1..Len(obs.hits) :
        LET h == obs.hits[i]
        IN  /\ LeastAxisPush(h)
            /\ IF h.velFrom[h.axis] * h.sign < 0
               THEN ReflectedScaled(h)
               ELSE h.velTo = h.velFrom

\* A step in which a second collider is met with the velocity already
\* pointing away from it.
C22_Witness ==
    \E i \in 1..Len(obs.hits) :
        /\ obs.hits[i].velFrom[obs.hits[i].axis] * obs.hits[i].sign >= 0
        /\ obs.hits[i].overlap[obs.hits[i].axis] > 0
        /\ obs.hits[i].velTo = obs.hits[i].velFrom

---------------------------------------------------------------------------
(* The dots of the preview against the free flight from its arguments.     *)

\* The segments of the flight from pos with velocity vel that no collider
\* interrupts: n steps of the preview's physics, each segment with the
\* velocity at its end.  The steps are taken half by half, the second half
\* from where the first one ends.
RECURSIVE FreeFlight(_, _, _)
FreeFlight(pos, vel, n) ==
    IF n = 0 THEN <<>>
    ELSE IF n = 1
    THEN With(PreviewStep(vel),
              LAMBDA v1 : <<[from |-> pos,
                             to |-> Vec(pos.x + v1.x * stepSize, pos.y + v1.y * stepSize,
                                        pos.z + v1.z * stepSize),
                             vel |-> v1]>>)
    ELSE With(FreeFlight(pos, vel, n \div 2),
              LAMBDA first :
                  first \o FreeFlight(first[Len(first)].to, first[Len(first)].vel,
                                      n - n \div 2))

\* The rounding of a hit point: the segment's lengths are counted in
\* thousandths and its fractions in 1/RayScale, of a segment shorter
\* than 10.
hitTolerance == 1000 + 10000000 \div RayScale

\* p lies on a face of one of the colliders.
OnSurface(p, cs) ==
    \E i \in 1..Len(cs) :
        /\ \A a \in Axes : cs[i].min[a] - hitTolerance <= p[a] /\ p[a] <= cs[i].max[a] + hitTolerance
        /\ \E a \in Axes : \/ Abs(p[a] - cs[i].min[a]) <= hitTolerance
                            \/ Abs(p[a] - cs[i].max[a]) <= hitTolerance

\* p lies in the box spanned by the ends of the segment g.
Between(p, g) ==
    \A a \in Axes : /\ Min2(g.from[a], g.to[a]) - hitTolerance <= p[a]
                    /\ p[a] <= Max2(g.from[a], g.to[a]) + hitTolerance

\* The indices of the free flight's segments that meet a collider.
HitSegments(segs, cs) ==
    {i \in 1..Len(segs) : FirstHit(segs[i].from, VSub(segs[i].to, segs[i].from), cs) >= 0}

\* C23: Trajectory.update sets exactly 30 samples; the samples before the
\* first ray hit are the points of the free flight, the sample of the hit
\* is visible and at the hit point, every sample after it is hidden and
\* the simulated point stays at the hit point.
C23_Samples ==
    traj.called =>
        /\ Len(traj.samples) = 30
        /\ With(FreeFlight(traj.args.origin, traj.args.velocity, 30),
                LAMBDA segs :
                    With(HitSegments(segs, collidables),
                         LAMBDA hit :
                             IF hit = {}
                             THEN /\ \A i \in 1..30 : traj.samples[i] = Dot(segs[i].to)
                                  /\ traj.last = segs[30].to
                             ELSE LET k == CHOOSE i \in hit : \A j \in hit : i <= j
                                  IN  /\ \A i \in 1..(k - 1) : traj.samples[i] = Dot(segs[i].to)
                                      /\ traj.samples[k].scale = 1
                                      /\ Between(traj.samples[k].position, segs[k])
                                      /\ OnSurface(traj.samples[k].position, collidables)
                                      /\ \A i \in (k + 1)..30 : traj.samples[i] = hiddenDot
                                      /\ traj.last = traj.samples[k].position))

\* A preview whose flight meets a collider before its last sample, after
\* at least two samples in the air.
C23_Witness ==
    /\ traj.called
    /\ \E k \in 3..29 :
           /\ traj.samples[k].scale = 1
           /\ traj.samples[k + 1] = hiddenDot
           /\ OnSurface(traj.samples[k].position, collidables)
           /\ traj.last = traj.samples[k].position

---------------------------------------------------------------------------
(* SpecDuel: the bot, the player and the ball they take from each other,   *)
(* one handler or one frame's update at a time.                            *)

MaxDuelSteps == 5

\* The delta of the frames: a tenth of a second.
duelDelta == D0_1

\* The bot in shooting range with the ball, 0.2 s into its aim, the player
\* behind it looking at the ball; the same with the bot under the near
\* rim; the bot beside a ball that rolls towards it, the player further
\* away; a ball falling beyond the right wall, bot and player as
\* constructed.
DuelStarts ==
    { [bot |-> bt, ball |-> BotBall(bt), player |-> [StandingAt(0, z, look) EXCEPT !.locked = TRUE]] :
          <<bt, z, look>> \in
              { <<[newBot EXCEPT !.hasBall = TRUE, !.position = Vec(0, 1000000, 8000000),
                                 !.shootDistance = 13000, !.aimingTime = 200],
                  10500000, "north">>,
                <<[newBot EXCEPT !.hasBall = TRUE, !.position = Vec(0, 1000000, 14300000),
                                 !.shootDistance = 6000, !.aimingTime = 200],
                  12500000, "south">> } }
    \cup { [bot |-> [newBot EXCEPT !.position = Vec(0, 1000000, -1000000)],
            ball |-> [newBall EXCEPT !.position = Vec(0, 150000, 0),
                                     !.velocity = Vec(0, 0, -2000)],
            player |-> StandingAt(0, 2500000, "north")],
          [bot |-> newBot,
           ball |-> [newBall EXCEPT !.position = Vec(12000000, -9950000, 0),
                                    !.velocity = Vec(0, -8000, 0)],
           player |-> [newPlayer EXCEPT !.locked = TRUE]] }

InitDuel ==
    /\ io = newServer
    /\ \E st \in DuelStarts :
           /\ bot = st.bot
           /\ ball = st.ball
           /\ player = st.player
           /\ duel = [noDuel EXCEPT !.bot = st.bot, !.ball = st.ball, !.player = st.player]
    /\ upd = idleUpd
    /\ obs = noObs
    /\ apex = noApex
    /\ pobs = noPobs
    /\ game = newGame
    /\ shot = noShot
    /\ traj = noTraj
    /\ chunk = noChunk
    /\ sprint = noSprint
    /\ relay = noRelay

\* The observation of an operation op: what bot, player and ball were
\* before it; rnd is the shooting distance drawn for a Bot.update.
DuelDid(op, rnd) ==
    [op |-> op, n |-> duel.n + 1, bot |-> bot, player |-> player, ball |-> ball, rnd |-> rnd]

\* One frame's Bot.update.
DuelBot ==
    /\ duel.n < MaxDuelSteps
    /\ \E rnd \in ShootDistances :
       \E r \in {BotUpdate(bot, ball, player, ToMs(duelDelta), rnd)} :
           /\ bot' = r.bot
           /\ ball' = r.ball
           /\ player' = r.player
           /\ duel' = DuelDid("bot", rnd)
    /\ UNCHANGED <<upd, obs, apex, pobs, game, shot, traj, chunk, sprint, relay, io>>

\* One frame's Player.update.
DuelPlayer ==
    /\ duel.n < MaxDuelSteps
    /\ \E r \in {PlayerUpdate(player, ball, duelDelta, collidables)} :
           /\ player' = r.player
           /\ ball' = r.ball
           /\ traj' = PreviewOf(traj, r)
    /\ duel' = DuelDid("player", 0)
    /\ UNCHANGED <<upd, obs, apex, pobs, game, shot, chunk, bot, sprint, relay, io>>

\* keydown of KeyE: Player.attemptSteal().
DuelSteal ==
    /\ duel.n < MaxDuelSteps
    /\ \E r \in {attemptSteal(player, ball)} :
           /\ player' = r.player
           /\ ball' = r.ball
    /\ duel' = DuelDid("steal", 0)
    /\ UNCHANGED <<upd, obs, apex, pobs, game, shot, traj, chunk, bot, sprint, relay, io>>

\* mousedown of the left button.
DuelThrow ==
    /\ duel.n < MaxDuelSteps
    /\ \E r \in {mousedown(player, ball, 0)} :
           /\ player' = r.player
           /\ ball' = r.ball
    /\ duel' = DuelDid("throw", 0)
    /\ UNCHANGED <<upd, obs, apex, pobs, game, shot, traj, chunk, bot, sprint, relay, io>>

\* One frame's Ball.update.
DuelBall ==
    /\ duel.n < MaxDuelSteps
    /\ ball' = BallUpdate(ball, duelDelta, collidables)
    /\ duel' = DuelDid("ball", 0)
    /\ UNCHANGED <<upd, obs, apex, player, pobs, game, shot, traj, chunk, bot, sprint, relay, io>>

\* A ball_updated message arrives.
DuelBallUpdated ==
    /\ duel.n < MaxDuelSteps
    /\ \E data \in NetBalls : ball' = ball_updated(player, ball, data)
    /\ duel' = DuelDid("ball_updated", 0)
    /\ UNCHANGED <<upd, obs, apex, player, pobs, game, shot, traj, chunk, bot, sprint, relay, io>>

NextDuel == DuelBot \/ DuelPlayer \/ DuelSteal \/ DuelThrow \/ DuelBall \/ DuelBallUpdated

SpecDuel == InitDuel /\ [][NextDuel]_vars

\* The last operation was a Bot.update in which the bot, having the ball
\* and being its owner, stood in shooting range with its aim timer
\* running out.
AimExpired ==
    /\ duel.op = "bot"
    /\ duel.bot.hasBall
    /\ duel.ball.owner = "bot"
    /\ InShootingRange(duel.bot, duel.rnd)
    /\ duel.bot.aimingTime + ToMs(duelDelta) > 200

\* C24: when the bot holds the ball and its aim timer expires, the update
\* leaves the bot without the ball, the ball without owner and aimingTime
\* and shootDistance reset; the ball has the fallback velocity (0, 10, 0)
\* if calculateShotVelocity returned null, the solved velocity otherwise.
C24_ShotOrFallback ==
    AimExpired =>
        /\ ~bot.hasBall
        /\ ball.owner = "none"
        /\ bot.aimingTime = 0
        /\ bot.shootDistance = 0
        /\ With(BotShot(duel.bot),
                LAMBDA v : ball.velocity = IF v.null THEN Vec(0, 10000, 0)
                                           ELSE Vec(v.x.v, v.y.v, v.z.v))

\* The aim timer of the bot under the rim expired: no shot was found and
\* the ball left with the fallback velocity.
C24_Witness ==
    /\ AimExpired
    /\ BotShot(duel.bot).null
    /\ ball.velocity = Vec(0, 10000, 0)
    /\ ~bot.hasBall

\* C25 as written: a Bot.update that starts with the bot's flag set and the
\* ball owned by the player clears the flag and neither moves the ball nor
\* takes it from the player.
C25_AsClaimed ==
    (duel.op = "bot" /\ duel.bot.hasBall /\ duel.ball.owner = "player") =>
        /\ ~bot.hasBall
        /\ ball.position = duel.ball.position
        /\ ball.owner = "player"

ThrewLooseBall ==
    /\ duel.op = "throw"
    /\ duel.player.locked
    /\ duel.player.hasBall
    /\ duel.ball.owner = "none"

\* The same by the shot of a bot whose flag was still set.
ShotLooseBall ==
    /\ duel.op = "bot"
    /\ duel.bot.hasBall
    /\ duel.ball.owner = "none"
    /\ InShootingRange(duel.bot, duel.rnd)
    /\ duel.bot.aimingTime + ToMs(duelDelta) > 200

\* C27: Ball.release on a ball without owner leaves its velocity, position
\* and owner as they were (the bot's carry line, which follows the call in
\* Bot.update, then writes the position).
C27_ReleaseWithoutOwner ==
    /\ ThrewLooseBall => ball = duel.ball
    /\ ShotLooseBall =>
           /\ ball.velocity = duel.ball.velocity
           /\ ball.owner = "none"

\* The player threw a ball that the bot had already released for it.
C27_Witness ==
    /\ ThrewLooseBall
    /\ ~player.hasBall
    /\ ball.velocity # VZero

---------------------------------------------------------------------------
(* SpecThrow: a player throws the ball at the wall in front and walks back *)
(* with it, frame by frame.                                                *)

MaxThrowTicks == 7

MaxThrowEvents == 2

\* Clock deltas of a 20 Hz frame and of a frame after a stall.
ThrowDeltas == {D0_05, D0_5}

\* A player a metre from the right wall, facing it with the ball at the
\* least power, the back key held.
ThrowStarts ==
    { [StandingAt(9000000, 0, "east") EXCEPT !.hasBall = TRUE, !.currentPower = 10,
                                             !.moveBackward = TRUE] }

\* Nothing thrown yet.  since counts the milliseconds of delta of the
\* Player.update calls that ran with the pointer lock held since the last
\* throw; near says that in one of them the ball was within pickup range
\* of the player who did not take it.
noThrow == [op |-> "none", thrown |-> FALSE, since |-> 0, near |-> FALSE,
            player |-> newPlayer, ball |-> newBall]

InitThrow ==
    /\ io = newServer
    /\ player \in ThrowStarts
    /\ ball = PlayerBall(player)
    /\ duel = [noThrow EXCEPT !.player = player, !.ball = ball]
    /\ upd = idleUpd
    /\ obs = noObs
    /\ apex = noApex
    /\ pobs = noPobs
    /\ game = newGame
    /\ shot = noShot
    /\ traj = noTraj
    /\ chunk = noChunk
    /\ bot = newBot
    /\ sprint = noSprint
    /\ relay = noRelay

\* One frame: Game.animate().
ThrowTick ==
    /\ game.ticks < MaxThrowTicks
    /\ \E raw \in ThrowDeltas :
       \E r \in {animate(player, ball, game, raw)} :
           /\ player' = r.player
           /\ ball' = r.ball
           /\ game' = r.game
           /\ traj' = PreviewOf(traj, r.update)
           /\ duel' = [duel EXCEPT
                          !.op = "tick",
                          !.since = IF duel.thrown /\ r.update.ran THEN @ + r.update.d ELSE @,
                          !.near = @ \/ (/\ duel.thrown
                                         /\ r.update.ran
                                         /\ ~r.player.hasBall
                                         /\ ball.owner = "none"
                                         /\ Within(r.player.position, ball.position,
                                                   pickupRange)),
                          !.player = player,
                          !.ball = ball]
    /\ UNCHANGED <<upd, obs, apex, pobs, shot, chunk, bot, sprint, relay, io>>

\* mousedown of the left button.
ThrowClick ==
    /\ game.events < MaxThrowEvents
    /\ \E r \in {mousedown(player, ball, 0)} :
           /\ player' = r.player
           /\ ball' = r.ball
           /\ duel' = IF player.locked /\ player.hasBall
                      THEN [duel EXCEPT !.op = "throw", !.thrown = TRUE, !.since = 0,
                                        !.near = FALSE, !.player = player, !.ball = ball]
                      ELSE [duel EXCEPT !.op = "click", !.player = player, !.ball = ball]
    /\ game' = [game EXCEPT !.events = @ + 1]
    /\ UNCHANGED <<upd, obs, apex, pobs, shot, traj, chunk, bot, sprint, relay, io>>

\* The pointer lock is lost or taken.
ThrowLock ==
    /\ game.events < MaxThrowEvents
    /\ player' = [player EXCEPT !.locked = ~@]
    /\ duel' = [duel EXCEPT !.op = "lock", !.player = player, !.ball = ball]
    /\ game' = [game EXCEPT !.events = @ + 1]
    /\ UNCHANGED <<ball, upd, obs, apex, pobs, shot, traj, chunk, bot, sprint, relay, io>>

NextThrow == ThrowTick \/ ThrowClick \/ ThrowLock

SpecThrow == InitThrow /\ [][NextThrow]_vars

\* The last frame's Player.update picked the ball up.
PickedUp == duel.op = "tick" /\ ~duel.player.hasBall /\ player.hasBall

\* C28: after a throw the proximity pickup takes the ball again only once
\* the Player.update calls that ran with the pointer lock held have
\* accumulated 0.5 s of delta, and until then the player is without the
\* ball however near it is.
C28_PickupCooldown ==
    /\ (duel.thrown /\ PickedUp) => duel.since >= 500
    /\ (duel.thrown /\ duel.since < 500 /\ duel.op \in {"tick", "throw", "lock"})
           => ~player.hasBall

\* The thrown ball stayed within range of the player, who took it again
\* when the cooldown was over.
C28_Witness ==
    /\ duel.thrown
    /\ PickedUp
    /\ duel.near
    /\ duel.since >= 500

----------------------------------------------------------------------------
(* SpecScore: the client with a shot coming down into either hoop.  The    *)
(* frames of Game.animate, the input events, and the timer that            *)
(* checkScoring sets; the browser runs a timer whose delay is over, and    *)
(* the delay passes whether or not frames are drawn.                       *)

\* The frames and the input events of a run.
MaxScoreTicks == 4

MaxScoreEvents == 1

\* A shot coming down into the far hoop, the player in front of it; and
\* one into the near hoop.
ScoreStarts ==
    { [player |-> StandingAt(0, -12850000, "north"),
       ball |-> [newBall EXCEPT !.position = Vec(0, 3000000, -14550000),
                                !.velocity = Vec(0, -1000, 0)]],
      [player |-> newPlayer,
       ball |-> [newBall EXCEPT !.position = Vec(0, 3000000, 14550000),
                                !.velocity = Vec(0, -1000, 0)]] }

InitScore ==
    /\ io = newServer
    /\ duel = noDuel
    /\ \E g \in ScoreStarts : player = g.player /\ ball = g.ball
    /\ upd = idleUpd
    /\ obs = noObs
    /\ apex = noApex
    /\ pobs = noPobs
    /\ game = newGame
    /\ shot = noShot
    /\ traj = noTraj
    /\ chunk = noChunk
    /\ bot = newBot
    /\ sprint = noSprint
    /\ relay = noRelay

\* Half a second of the timer's delay passes with no frame drawn.
TimerWait ==
    /\ game.timer.pending
    /\ game.timer.elapsed < scoreResetDelay
    /\ game' = [game EXCEPT !.timer.elapsed = @ + ToMs(D0_5), !.reads = <<>>]
    /\ UNCHANGED <<player, ball, upd, obs, apex, pobs, shot, traj, chunk, bot, sprint, relay, duel, io>>

\* One frame, the run's frames not used up.
ScoreTick == game.ticks < MaxScoreTicks /\ Tick

\* One input event, the run's events not used up.
ScoreEvent == game.events < MaxScoreEvents /\ (MouseDown \/ BallUpdated \/ PointerLockChange)

NextScore == ScoreTick \/ ScoreEvent \/ ScoreTimeout \/ TimerWait

SpecScore ==
    InitScore /\ [][NextScore]_vars /\ WF_vars(ScoreTimeout) /\ WF_vars(TimerWait)

\* The scores counted so far.
Counted(g) == g.score + g.botScore

\* The ball's box is in a hoop trigger and the ball is falling.
InHoopFalling(b) ==
    /\ \E i \in 1..Len(triggers) : intersectsBox(triggers[i], b.ballBox)
    /\ b.velocity.y < 0

\* C29: a step counts a score only if it is a frame after whose
\* Ball.update the ball's box intersects a hoop trigger and the ball's
\* vertical velocity is negative, with justScored false before it, and it
\* counts one score and sets justScored; while justScored is set no step
\* counts a score, and justScored is cleared only by the timer's callback,
\* which resets the ball, 1000 ms or more after the score; and whenever
\* justScored is set it is later cleared.
C29_Scoring ==
    /\ [][Counted(game') # Counted(game) =>
              /\ game'.ticks = game.ticks + 1
              /\ InHoopFalling(ball')
              /\ ~game.justScored
              /\ game'.justScored
              /\ Counted(game') = Counted(game) + 1
              /\ game'.timer = [pending |-> TRUE, elapsed |-> 0]]_vars
    /\ [][game.justScored /\ ~game'.justScored =>
              /\ game.timer.elapsed >= scoreResetDelay
              /\ ball' = reset(ball)
              /\ ~game'.timer.pending]_vars
    /\ [](game.justScored <=> game.timer.pending)
    /\ (game.justScored ~> ~game.justScored)

\* The frame after a score: the ball is still falling through the trigger,
\* justScored is set, and the one score stands.
C29_Witness ==
    /\ game.justScored
    /\ game.timer.elapsed = ToMs(D0_05)
    /\ InHoopFalling(ball)
    /\ Counted(game) = 1

\* The reset has run after a score: justScored is clear and the ball is
\* back at its spawn.
C29_ResetRan ==
    /\ Counted(game) = 1
    /\ ~game.justScored
    /\ ball = reset(ball)

----------------------------------------------------------------------------
(* SpecServer: the relay server.  Sockets connect, each with a new id,     *)
(* send player_update and ball_update and disconnect, in any order.        *)
(* Game.animate puts the socket's own id into ownerId; the server reads    *)
(* the id from the message, so a ball_update may name any id.              *)

\* The handlers run in a run.
MaxServerSteps == 6

\* The ids socket.io gives its sockets.
SocketIds == {"s1", "s2", "s3"}

\* The player_update payloads of Game.animate.
ClientPlayers ==
    { [position |-> Vec(1000000, 1600000, 2000000), quaternion |-> Quat(0, 707, 0, 707)],
      [position |-> Vec(3000000, 1600000, -4000000), quaternion |-> Quat(0, 1000, 0, 0)] }

\* The ball_update payloads that name id as the owner: the held ball at
\* the camera's hand.
ClientBalls(id) ==
    { [ownerId |-> id, position |-> Vec(1300000, 1400000, 1500000), velocity |-> VZero],
      [ownerId |-> id, position |-> Vec(3300000, 1400000, -4500000), velocity |-> VZero] }

InitServer ==
    /\ io = newServer
    /\ duel = noDuel
    /\ relay = noRelay
    /\ player = newPlayer
    /\ ball = newBall
    /\ upd = idleUpd
    /\ obs = noObs
    /\ apex = noApex
    /\ pobs = noPobs
    /\ game = newGame
    /\ shot = noShot
    /\ traj = noTraj
    /\ chunk = noChunk
    /\ bot = newBot
    /\ sprint = noSprint

\* What a handler leaves, with the count of handlers and the record of
\* this one: the socket and ballState before it.
ServerDid(sv, op, id) ==
    [sv EXCEPT !.n = io.n + 1,
               !.last = [op |-> op, id |-> id, ballState |-> io.ballState]]

\* A client connects.
Connection ==
    /\ io.n < MaxServerSteps
    /\ \E id \in SocketIds \ io.used : io' = ServerDid(connection(io, id), "connection", id)
    /\ UNCHANGED <<ball, upd, obs, apex, player, pobs, game, shot, traj, chunk, bot, sprint, relay, duel>>

\* A connected client's frame emits player_update.
SocketPlayerUpdate ==
    /\ io.n < MaxServerSteps
    /\ \E id \in io.sockets : \E data \in ClientPlayers :
           io' = ServerDid(socket_player_update(io, id, data), "player_update", id)
    /\ UNCHANGED <<ball, upd, obs, apex, player, pobs, game, shot, traj, chunk, bot, sprint, relay, duel>>

\* A connected client emits ball_update, naming itself (as the frame of
\* Game.animate does while its player holds the ball) or another id.
SocketBallUpdate ==
    /\ io.n < MaxServerSteps
    /\ \E id \in io.sockets : \E owner \in SocketIds : \E data \in ClientBalls(owner) :
           io' = ServerDid([socket_ball_update(io, id, data) EXCEPT
                                !.own = @ /\ data.ownerId = id],
                           "ball_update", id)
    /\ UNCHANGED <<ball, upd, obs, apex, player, pobs, game, shot, traj, chunk, bot, sprint, relay, duel>>

\* A connected client's socket closes.
Disconnect ==
    /\ io.n < MaxServerSteps
    /\ \E id \in io.sockets : io' = ServerDid(disconnect(io, id), "disconnect", id)
    /\ UNCHANGED <<ball, upd, obs, apex, player, pobs, game, shot, traj, chunk, bot, sprint, relay, duel>>

NextServer == Connection \/ SocketPlayerUpdate \/ SocketBallUpdate \/ Disconnect

SpecServer == InitServer /\ [][NextServer]_vars

\* The last handler was the disconnect of the socket that owned the ball.
OwnerLeft == io.last.op = "disconnect" /\ io.last.ballState.ownerId = io.last.id

\* The keys of players are the ids of the connected sockets.
PlayersAreSockets == DOMAIN io.players = io.sockets

\* The disconnect of the owning socket leaves ballState with owner null,
\* position (0, 5, 0) and velocity zero and emits it as ball_updated to
\* every connected socket.
OwnerLeftResets ==
    OwnerLeft =>
        /\ io.ballState = newBallState
        /\ \E i \in 1..Len(io.emitted) :
               /\ io.emitted[i].event = "ball_updated"
               /\ io.emitted[i].to = io.sockets
               /\ io.emitted[i].data = newBallState

\* C30 as written: after any connections, player_update and ball_update
\* messages and disconnections ballState.ownerId is null or the id of a
\* connected socket, the keys of players are the ids of the connected
\* sockets, and the disconnect of the owning socket resets the ball and
\* emits it to every connected socket.
C30_AsClaimed ==
    /\ io.ballState.ownerId \in {"none"} \cup io.sockets
    /\ PlayersAreSockets
    /\ OwnerLeftResets

\* C30, amended: ballState.ownerId is null or the id of a connected socket
\* as long as every ball_update named its sender as the owner; the keys of
\* players are the ids of the connected sockets and the disconnect of the
\* owning socket resets the ball and emits it to every connected socket,
\* whatever the messages were.
C30_Amended ==
    /\ io.own => io.ballState.ownerId \in {"none"} \cup io.sockets
    /\ PlayersAreSockets
    /\ OwnerLeftResets

\* The owner has left, the ball was somewhere else than at its spawn, and
\* another socket is still connected to hear of it.
C30_Witness ==
    /\ OwnerLeft
    /\ io.own
    /\ io.last.ballState.position # ballSpawn
    /\ io.sockets # {}
    /\ io.ballState.ownerId = "none"

====
